---- MODULE Spec2Model ----
(***************************************************************************)
(* State-machine model of the acosmibot HTTP API: the webhook endpoints    *)
(* (Twitch EventSub, Kick, YouTube WebSub, Stripe), the authentication     *)
(* decorators and the guild-management routes.  Every subsystem has its    *)
(* own specification (SpecTwitch, SpecKick, ...) over the shared variable  *)
(* tuple; a specification leaves the other subsystems' variables alone.    *)
(***************************************************************************)
EXTENDS Integers, Sequences, FiniteSets, Bags, TLC

\* Python's None / a header that is absent, for string-valued fields.
NoneVal == "None"
\* The same for message ids (which are numbered from 1).
NoId == 0
\* An absent signature header.
NoSignature == [prefix |-> "", tag |-> <<>>]
\* An absent database record.
NoRecord == [exists |-> FALSE, tracked_guild_ids |-> {}]

(***************************************************************************)
(* Bounds of the model.                                                    *)
(***************************************************************************)
\* Number of distinct webhook message ids the platforms use.
NumMsgIds == 2
\* Number of rows the Kick event table can take.
MaxKickEvents == 2
MsgIds == 1..NumMsgIds

\* The guilds (Discord servers) of the model, by id.
Guilds == {1, 2}

VARIABLES
    \* ---- Twitch EventSub endpoint ----
    twEvents,      \* TwitchWebhookEvents rows: message id -> "none" | "recorded" | "processed" | "error"
    twAnn,         \* StreamingAnnouncements rows (platform twitch): sequence of [guild, msg, ended]
    twDiscord,     \* Discord announcement messages: message id (index) -> "live" | "ended"
    twSub,         \* TwitchEventSub record of the broadcaster: [exists, tracked_guild_ids]
    twConfigured,  \* tracking guilds whose settings enable streaming, list the streamer and name a channel
    twDelivered,   \* message ids of the validly signed notifications delivered so far
    twFailed,      \* message ids of the notifications answered 500 'Processing failed' so far
    twLast,        \* what the last request was, the response given and the Discord calls made for it
    \* ---- Kick endpoint ----
    kkEvents,      \* KickWebhookEvents rows: the set of event ids recorded
    kkAnn,         \* KickAnnouncements rows: sequence of [guild, msg, ended]
    kkDiscord,     \* Discord announcement messages: message id (index) -> "live" | "ended"
    kkSub,         \* KickSubscription record of the broadcaster: [exists, tracked_guild_ids]
    kkConfigured,  \* tracking guilds whose settings enable Kick and list the streamer
    kkLast,        \* the last request handled, the response given and the Discord calls made for it
    \* ---- Stripe webhook endpoint ----
    stSubs,        \* Subscriptions rows: sequence of [guild_id, tier, stripe_subscription_id, status]
    stGuild,       \* Guilds rows: guild id -> [tier, status]
    stHandled,     \* Stripe event id -> the event handled under that id, or NoEvent
    stSecret,      \* whether STRIPE_WEBHOOK_SECRET is set
    stDao,         \* what SubscriptionDao.create_subscription does with a known stripe_subscription_id
    stLast,        \* what the last request was, the response given and the writes made for it
    \* ---- YouTube WebSub endpoint ----
    ytEvents,      \* YoutubeWebhookEvents rows, a bag of [event_id, channel_id, video_id, event_type]
    ytSecret,      \* whether YOUTUBE_WEBHOOK_SECRET is set
    ytLast,        \* what the last request was, the response given, the rows stored and skipped for it
    \* ---- Authentication decorators and the admin blueprint ----
    auNow,         \* the time, in hours
    auSecret,      \* whether JWT_SECRET is set in the environment
    auTokens,      \* the JWTs create_jwt has issued
    auAdmins,      \* AdminUsers: user id -> "none" | "admin" | "super_admin"
    auLast,        \* what the last request was, the response given, whether the handler body ran
    \* ---- Guild-management routes ----
    gmAdminOf,     \* the guilds for which check_admin_sync(user, guild) is true for the caller
    gmRR,          \* ReactionRoles rows: id -> [exists, guild_id, name, is_sent, message_id]
    gmMessages,    \* the messages sends of reaction roles have posted to Discord: <<reaction role id, message id>>
    gmEmbeds,      \* Embeds rows: id -> [exists, guild_id, name, is_sent]
    gmSettings,    \* Guilds.settings: guild id -> "old" | "new"
    gmTier,        \* Guilds.subscription_tier: guild id -> tier
    gmSub,         \* Subscriptions row of a guild: guild id -> "none" | "active" | "canceling" | "canceled"
    gmLast,        \* what the last request was, the response given, the writes and Discord calls made
    \* ---- Twitch subscription manager ----
    smRecord,      \* TwitchEventSub row of the broadcaster, or NoSubRecord
    smUpstream,    \* EventSub subscriptions that exist at Twitch: set of [id, type]
    smNextId,      \* the id Twitch gives the next subscription
    smTracking,    \* guilds whose last call was a successful subscribe
    smFailed,      \* whether a call to Twitch has failed so far
    smLast,        \* the last call: operation, guild, success, subscriptions created and deleted
    \* ---- check_admin ----
    caInput,       \* the user, and what Discord answers about the guild, the member and the roles
    caResult,      \* whether check_admin has returned, and what
    \* ---- concurrent deliveries ----
    cdPlatform,    \* the endpoint the deliveries arrive at
    cdType,        \* the subscription or event type of the notification
    cdId,          \* the message id of each delivery
    cdEvents,      \* event ids stored in the event table
    cdPc,          \* where each delivery is in the handler
    cdProcessed,   \* whether each delivery has started the event handler
    cdResp,        \* the answer of each delivery
    \* ---- YouTube subscription manager ----
    ysRows,        \* rows of YoutubeSubscriptions: <<guild, channel>>
    ysHub,         \* channels the hub is subscribed to
    ysStatus,      \* websub status of each channel
    ysLast,        \* the last call: operation, guild, channel, returned value, hub request sent
    \* ---- concurrent add_subscription calls ----
    ycIsolation,   \* the isolation level of the database
    ycRows,        \* guilds with a committed row of the channel
    ycHub,         \* whether the hub has accepted a subscribe request for the channel
    ycCall,        \* the call of each guild
    \* ---- Concurrent send requests for one reaction role ----
    scRow,         \* the ReactionRoles row the requests name
    scMessages,    \* the ids of the messages posted to Discord for it
    scSend,        \* per request: [pc, message_id, resp, returned]
    \* ---- Custom commands ----
    ccAdmins,      \* the <<user id, guild id>> for which Discord makes the user an admin of the guild
    ccCommands,    \* CustomCommands rows: <<guild id, command>>
    ccLast         \* the last request: its caller, guild and body, and the response

twVars == <<twEvents, twAnn, twDiscord, twSub, twConfigured, twDelivered, twFailed, twLast>>

kkVars == <<kkEvents, kkAnn, kkDiscord, kkSub, kkConfigured, kkLast>>

stVars == <<stSubs, stGuild, stHandled, stSecret, stDao, stLast>>

ytVars == <<ytEvents, ytSecret, ytLast>>

auVars == <<auNow, auSecret, auTokens, auAdmins, auLast>>

gmVars == <<gmAdminOf, gmRR, gmMessages, gmEmbeds, gmSettings, gmTier, gmSub, gmLast>>

smVars == <<smRecord, smUpstream, smNextId, smTracking, smFailed, smLast>>

caVars == <<caInput, caResult>>

cdVars == <<cdPlatform, cdType, cdId, cdEvents, cdPc, cdProcessed, cdResp>>

ysVars == <<ysRows, ysHub, ysStatus, ysLast>>

ycVars == <<ycIsolation, ycRows, ycHub, ycCall>>

scVars == <<scRow, scMessages, scSend>>

ccVars == <<ccAdmins, ccCommands, ccLast>>

vars == <<twVars, kkVars, stVars, ytVars, auVars, gmVars, smVars, caVars, cdVars, ysVars, ycVars, scVars, ccVars>>

\* The variables outside each subsystem.
exceptTwitch == <<kkVars, stVars, ytVars, auVars, gmVars, smVars, caVars, cdVars, ysVars, ycVars, scVars, ccVars>>

exceptKick == <<twVars, stVars, ytVars, auVars, gmVars, smVars, caVars, cdVars, ysVars, ycVars, scVars, ccVars>>

exceptStripe == <<twVars, kkVars, ytVars, auVars, gmVars, smVars, caVars, cdVars, ysVars, ycVars, scVars, ccVars>>

exceptYouTube == <<twVars, kkVars, stVars, auVars, gmVars, smVars, caVars, cdVars, ysVars, ycVars, scVars, ccVars>>

exceptAuth == <<twVars, kkVars, stVars, ytVars, gmVars, smVars, caVars, cdVars, ysVars, ycVars, scVars, ccVars>>

exceptGuild == <<twVars, kkVars, stVars, ytVars, auVars, smVars, caVars, cdVars, ysVars, ycVars, scVars, ccVars>>

exceptSubs == <<twVars, kkVars, stVars, ytVars, auVars, gmVars, caVars, cdVars, ysVars, ycVars, scVars, ccVars>>

exceptCheckAdmin == <<twVars, kkVars, stVars, ytVars, auVars, gmVars, smVars, cdVars, ysVars, ycVars, scVars, ccVars>>

exceptConcurrent == <<twVars, kkVars, stVars, ytVars, auVars, gmVars, smVars, caVars, ysVars, ycVars, scVars, ccVars>>

exceptYtSubs == <<twVars, kkVars, stVars, ytVars, auVars, gmVars, smVars, caVars, cdVars, ycVars, scVars, ccVars>>

exceptYtConcurrent == <<twVars, kkVars, stVars, ytVars, auVars, gmVars, smVars, caVars, cdVars, ysVars, scVars, ccVars>>

exceptSendConcurrent == <<twVars, kkVars, stVars, ytVars, auVars, gmVars, smVars, caVars, cdVars, ysVars, ycVars, ccVars>>

exceptCustomCommands == <<twVars, kkVars, stVars, ytVars, auVars, gmVars, smVars, caVars, cdVars, ysVars, ycVars, scVars>>

(***************************************************************************)
(* HMAC.  A MAC is modelled as an ideal one: the tag is determined by, and *)
(* determines, the algorithm, the key and the message.                     *)
(***************************************************************************)
Hmac(alg, key, message) == <<alg, key, message>>

\* The hex digest prefixed the way the platforms send it: 'sha256=' + hexdigest.
Prefixed(prefix, tag) == [prefix |-> prefix, tag |-> tag]

(***************************************************************************)
(* Twitch EventSub: src/api/blueprints/twitch_webhooks.py                  *)
(***************************************************************************)
TwitchSecret == "twitch-secret"
OtherSecret == "other-secret"

TwitchTypes == {"webhook_callback_verification", "notification", "revocation", "unknown"}
TwitchSubTypes == {"stream.online", "stream.offline", "channel.update"}

\* Request bodies: a JSON object with the subscription type and, for a
\* verification request, possibly a challenge; or a body that is not JSON.
TwitchBody(subType, challenge) == [json |-> TRUE, subType |-> subType, challenge |-> challenge]
NotJson == [json |-> FALSE, subType |-> NoneVal, challenge |-> NoneVal]

\* The message types and bodies that are sent together.
TwitchShapes ==
    ({"notification"} \X ({TwitchBody(t, NoneVal) : t \in TwitchSubTypes} \cup {NotJson}))
    \cup ({"webhook_callback_verification"}
              \X {TwitchBody("stream.online", "ch"), TwitchBody("stream.online", NoneVal)})
    \cup ({"revocation", "unknown"} \X {TwitchBody("stream.online", NoneVal)})

\* message = message_id.encode() + timestamp.encode() + body
TwitchSignedMessage(message_id, timestamp, body) == <<message_id, timestamp, body>>

\* The signature the claim and the code both name:
\* 'sha256=' + HMAC-SHA256(webhook secret, message id + timestamp + raw body).
TwitchExpectedSignature(message_id, timestamp, body) ==
    Prefixed("sha256=", Hmac("sha256", TwitchSecret, TwitchSignedMessage(message_id, timestamp, body)))

\* Signature headers that differ from the expected one: the MAC under another
\* key, and the right MAC announced as 'sha1='.
TwitchWrongKeySignature(message_id, timestamp, body) ==
    Prefixed("sha256=", Hmac("sha256", OtherSecret, TwitchSignedMessage(message_id, timestamp, body)))
TwitchWrongPrefixSignature(message_id, timestamp, body) ==
    Prefixed("sha1=", Hmac("sha256", TwitchSecret, TwitchSignedMessage(message_id, timestamp, body)))
\* A signature header with a character outside ASCII.
NonAsciiSignature == Prefixed("sha256=", <<"non-ascii">>)

TwitchRequest(message_id, timestamp, signature, message_type, body) ==
    [message_id |-> message_id, timestamp |-> timestamp, signature |-> signature,
     message_type |-> message_type, body |-> body]

\* Requests that carry the four Twitch-Eventsub headers: every shape under the
\* expected signature and under a wrong key, and a notification whose
\* signature has the wrong prefix.
TwitchFullRequests ==
    { TwitchRequest(i, "ts", TwitchExpectedSignature(i, "ts", shape[2]), shape[1], shape[2]) :
          <<i, shape>> \in MsgIds \X TwitchShapes }
    \cup { TwitchRequest(i, "ts", TwitchWrongKeySignature(i, "ts", shape[2]), shape[1], shape[2]) :
          <<i, shape>> \in MsgIds \X TwitchShapes }
    \cup { TwitchRequest(i, "ts", TwitchWrongPrefixSignature(i, "ts", TwitchBody("stream.online", NoneVal)),
                         "notification", TwitchBody("stream.online", NoneVal)) : i \in MsgIds }
    \cup { TwitchRequest(1, "ts", NonAsciiSignature, "notification", TwitchBody("stream.online", NoneVal)) }

\* Requests that lack one of them: a signed stream.online notification with
\* one header removed.
TwitchPartialRequests ==
    LET body == TwitchBody("stream.online", NoneVal)
        sig == TwitchExpectedSignature(1, "ts", body)
    IN { TwitchRequest(NoId, "ts", sig, "notification", body),
         TwitchRequest(1, NoneVal, sig, "notification", body),
         TwitchRequest(1, "ts", NoSignature, "notification", body),
         TwitchRequest(1, "ts", sig, NoneVal, body) }

TwitchRequests == TwitchFullRequests \cup TwitchPartialRequests

\* hmac.compare_digest raises TypeError when a str argument is not ASCII;
\* verify_webhook_signature does not catch it.
compare_digest_raises(signature) == signature = NonAsciiSignature

verify_webhook_signature_any_sha256(signature, message_id, timestamp, body) ==
    signature.prefix = "sha256="

verify_webhook_signature(signature, message_id, timestamp, body) ==
    TwitchExpectedSignature(message_id, timestamp, body) = signature

event_exists_never(events, message_id) == FALSE

event_exists(events, message_id) == events[message_id] # "none"

Response(status, body) == [status |-> status, body |-> body]

\* What Flask answers when an exception leaves the view function: no error
\* handler is registered, so the answer is its 500 page, not a JSON body.
FrameworkError == Response(500, "Internal Server Error")

SetMin(S) == CHOOSE x \in S : \A y \in S : x <= y

\* The TwitchEventSub record of the broadcaster, as the DAO returns it.
guild_count(sub) == Cardinality(sub.tracked_guild_ids)

\* StreamingAnnouncementDao.get_active_stream_for_streamer: the rows of the
\* guild whose stream_ended_at IS NULL.
ActiveRows(ann, guild) == { i \in 1..Len(ann) : ann[i].guild = guild /\ ~ann[i].ended }

\* StreamingAnnouncementDao.mark_stream_offline(platform, guild_id, username, ...):
\* keyed by guild and streamer, it ends the active rows of that pair.
mark_stream_offline(ann, guild) ==
    [i \in 1..Len(ann) |-> IF ann[i].guild = guild THEN [ann[i] EXCEPT !.ended = TRUE] ELSE ann[i]]

\* The state a Twitch handler works on.
TwState(events, ann, disc, calls) == [events |-> events, ann |-> ann, disc |-> disc, calls |-> calls]

\* One iteration of handle_stream_online's loop over tracked_guild_ids: the
\* guilds whose settings do not allow the announcement are skipped; the others
\* get one post_message call and, when it returned a message, one
\* create_announcement row.
post_announcement(st, guild, configured, postOk) ==
    IF guild \notin configured THEN st
    ELSE IF guild \notin postOk THEN [st EXCEPT !.calls = @ + 1]
    ELSE [st EXCEPT !.calls = @ + 1,
                    !.disc = Append(@, "live"),
                    !.ann = Append(@, [guild |-> guild, msg |-> Len(st.disc) + 1, ended |-> FALSE])]

RECURSIVE online_loop(_, _, _, _)
online_loop(st, guilds, configured, postOk) ==
    IF guilds = {} THEN st
    ELSE LET g == SetMin(guilds)
         IN online_loop(post_announcement(st, g, configured, postOk), guilds \ {g}, configured, postOk)

\* handle_stream_online(event, event_id).  fetch is what the Twitch API call
\* get_live_streams_batch does ("ok", "missing": the streamer is not in the
\* answer, "raise"); postOk the guilds for which Discord accepts the post.
\* The result says whether the coroutine raised.
handle_stream_online(st, event_id, sub, configured, fetch, postOk) ==
    IF ~sub.exists \/ guild_count(sub) = 0 THEN [st |-> st, raised |-> FALSE]
    ELSE IF fetch = "raise" THEN [st |-> st, raised |-> TRUE]
    ELSE IF fetch = "missing"
        THEN [st |-> [st EXCEPT !.events[event_id] = "error"], raised |-> FALSE]
    ELSE LET done == online_loop(st, sub.tracked_guild_ids, configured, postOk)
         IN [st |-> [done EXCEPT !.events[event_id] = "processed"], raised |-> FALSE]

\* One iteration of handle_stream_offline's loop: the active announcement of
\* the guild (pick chooses which when there are several), mark_stream_offline,
\* then edit_announcement_on_stream_end on the message of that announcement.
end_announcement(st, guild, editOk, pick) ==
    LET active == ActiveRows(st.ann, guild)
        row == IF pick = "first" THEN SetMin(active) ELSE CHOOSE i \in active : \A j \in active : j <= i
    IN IF active = {} THEN st
       ELSE [st EXCEPT !.ann = mark_stream_offline(@, guild),
                       !.calls = @ + 1,
                       !.disc = IF guild \in editOk THEN [@ EXCEPT ![st.ann[row].msg] = "ended"] ELSE @]

RECURSIVE offline_loop(_, _, _, _)
offline_loop(st, guilds, editOk, pick) ==
    IF guilds = {} THEN st
    ELSE LET g == SetMin(guilds)
         IN offline_loop(end_announcement(st, g, editOk, pick), guilds \ {g}, editOk, pick)

\* handle_stream_offline(event, event_id).
handle_stream_offline(st, event_id, sub, editOk, pick) ==
    IF ~sub.exists THEN [st |-> st, raised |-> FALSE]
    ELSE LET done == offline_loop(st, sub.tracked_guild_ids, editOk, pick)
         IN [st |-> [done EXCEPT !.events[event_id] = "processed"], raised |-> FALSE]

\* Environment of one delivery: the outcomes of the calls to Twitch and Discord.
TwitchEnvs == [fetch : {"ok", "missing", "raise"}, ok : SUBSET Guilds, pick : {"first", "last"}]

\* The outcomes that the handling of req can depend on: the others are
\* represented by one (the calls they stand for are not made).
TwitchEnvsFor(req, sub, configured, ann) ==
    LET online == req.message_type = "notification" /\ req.body.subType = "stream.online"
        offline == req.message_type = "notification" /\ req.body.subType = "stream.offline"
        called == IF online THEN sub.tracked_guild_ids \cap configured
                  ELSE IF offline THEN { g \in sub.tracked_guild_ids : ActiveRows(ann, g) # {} }
                  ELSE {}
    IN { env \in TwitchEnvs :
           /\ (online /\ sub.tracked_guild_ids # {}) \/ env.fetch = "ok"
           /\ env.ok \subseteq called
           /\ (offline /\ \E g \in called : Cardinality(ActiveRows(ann, g)) > 1) \/ env.pick = "first" }

\* all([message_id, message_timestamp, message_signature, message_type])
TwitchHeadersPresent(req) ==
    /\ req.message_id # NoId
    /\ req.timestamp # NoneVal
    /\ req.signature # NoSignature
    /\ req.message_type # NoneVal

\* twitch_eventsub_webhook(): the response and the state after it.
twitch_eventsub_webhook(st, req, sub, configured, env) ==
    IF ~TwitchHeadersPresent(req)
        THEN [st |-> st, resp |-> Response(400, "Missing headers")]
    ELSE IF compare_digest_raises(req.signature)
        THEN [st |-> st, resp |-> FrameworkError]
    ELSE IF ~verify_webhook_signature(req.signature, req.message_id, req.timestamp, req.body)
        THEN [st |-> st, resp |-> Response(403, "Invalid signature")]
    ELSE IF ~req.body.json
        THEN [st |-> st, resp |-> Response(400, "Invalid JSON")]
    ELSE IF req.message_type = "webhook_callback_verification"
        THEN IF req.body.challenge = NoneVal
             THEN [st |-> st, resp |-> Response(400, "Missing challenge")]
             ELSE [st |-> st, resp |-> Response(200, req.body.challenge)]
    ELSE IF req.message_type = "notification"
        THEN IF event_exists(st.events, req.message_id)
             THEN [st |-> st, resp |-> Response(200, "Duplicate event")]
             ELSE LET recorded == [st EXCEPT !.events[req.message_id] = "recorded"]
                      out == IF req.body.subType = "stream.online"
                                 THEN handle_stream_online(recorded, req.message_id, sub, configured,
                                                           env.fetch, env.ok)
                             ELSE IF req.body.subType = "stream.offline"
                                 THEN handle_stream_offline(recorded, req.message_id, sub, env.ok, env.pick)
                             ELSE [st |-> recorded, raised |-> FALSE]
                  IN IF out.raised
                     THEN [st |-> out.st, resp |-> Response(500, "Processing failed")]
                     ELSE [st |-> out.st, resp |-> Response(200, "success")]
    ELSE IF req.message_type = "revocation"
        THEN [st |-> st, resp |-> Response(200, "success")]
    ELSE [st |-> st, resp |-> Response(400, "Unknown message type")]

TwitchStart ==
    /\ twEvents = [m \in MsgIds |-> "none"]
    /\ twAnn = <<>>
    /\ twDiscord = <<>>
    /\ twDelivered = {}
    /\ twFailed = {}
    /\ twLast = [headers |-> FALSE, sigMatches |-> FALSE, notification |-> FALSE,
                 redelivery |-> FALSE, retry |-> FALSE, ignored |-> FALSE, offline |-> FALSE,
                 resp |-> Response(0, ""), calls |-> 0]

\* The Twitch endpoint before any request, with no subscription record.
TwitchIdle == TwitchStart /\ twSub = NoRecord /\ twConfigured = {}

\* A delivery the endpoint has nothing to do for: a notification whose
\* message id has a row already or whose subscription type has no handler,
\* and a message that is neither a notification nor a verification request.
TwitchIgnores(events, req) ==
    /\ req.body.json
    /\ \/ /\ req.message_type = "notification"
          /\ \/ event_exists(events, req.message_id)
             \/ req.body.subType \notin {"stream.online", "stream.offline"}
       \/ req.message_type \notin {"notification", "webhook_callback_verification"}

\* A request arrives at POST /api/webhooks/twitch and is handled to the end.
\* twLast records what the request was (whether it carried the four headers,
\* whether its signature is the expected one, whether it is a notification,
\* whether a signed notification with its id was delivered before, whether
\* one was answered 500 before, whether the endpoint has nothing to do for
\* it, whether it is a stream.offline notification that is not a duplicate),
\* the response and the number of Discord calls made for it.
TwitchDeliver ==
    \E req \in TwitchRequests :
      \E env \in TwitchEnvsFor(req, twSub, twConfigured, twAnn) :
        LET out == twitch_eventsub_webhook(TwState(twEvents, twAnn, twDiscord, 0),
                                           req, twSub, twConfigured, env)
            matches == req.signature = TwitchExpectedSignature(req.message_id, req.timestamp, req.body)
            notification == /\ TwitchHeadersPresent(req) /\ matches
                            /\ req.body.json /\ req.message_type = "notification"
        IN /\ twEvents' = out.st.events
           /\ twFailed' = IF out.resp = Response(500, "Processing failed")
                          THEN twFailed \cup {req.message_id} ELSE twFailed
           /\ twAnn' = out.st.ann
           /\ twDiscord' = out.st.disc
           /\ twDelivered' = IF notification THEN twDelivered \cup {req.message_id} ELSE twDelivered
           /\ twLast' = [headers |-> TwitchHeadersPresent(req), sigMatches |-> matches,
                         notification |-> notification,
                         redelivery |-> notification /\ req.message_id \in twDelivered,
                         retry |-> notification /\ req.message_id \in twFailed,
                         ignored |-> TwitchHeadersPresent(req) /\ matches /\ TwitchIgnores(twEvents, req),
                         offline |-> /\ notification /\ req.body.subType = "stream.offline"
                                     /\ ~event_exists(twEvents, req.message_id),
                         resp |-> out.resp, calls |-> out.st.calls]
           /\ UNCHANGED <<twSub, twConfigured>>
           /\ UNCHANGED exceptTwitch

TwitchNext == TwitchDeliver

\* A guild removes the streamer while notifications keep arriving:
\* unsubscribe_from_streamer takes the guild out of tracked_guild_ids and
\* deletes the record when no guild is left.  It does not touch the
\* announcements of the guild.
TwitchStopTracking ==
    \E guild_id \in twSub.tracked_guild_ids :
        LET remaining == twSub.tracked_guild_ids \ {guild_id}
        IN /\ twSub' = IF remaining = {} THEN NoRecord
                                         ELSE [twSub EXCEPT !.tracked_guild_ids = remaining]
           /\ twConfigured' = twConfigured \ {guild_id}
           /\ UNCHANGED <<twEvents, twAnn, twDiscord, twDelivered, twFailed, twLast>>
           /\ UNCHANGED exceptTwitch

TrackingNext == TwitchDeliver \/ TwitchStopTracking

(***************************************************************************)
(* Kick webhooks: src/api/blueprints/kick_webhooks.py                      *)
(***************************************************************************)
KickSecret == "kick-secret"

KickEventTypes == {"livestream.status.updated"}

\* Payloads: a body that is not JSON, the empty object, a JSON array that
\* is not empty, or a livestream status with is_live.
KickPayloads == {"not-json", "empty", "list", "live", "not-live"}

KickRequest(message_id, signature, event_type, payload) ==
    [message_id |-> message_id, signature |-> signature, event_type |-> event_type, payload |-> payload]

\* message = f"{message_id}.{timestamp}.".encode() + body
KickSignedMessage(message_id, payload) == <<message_id, ".", "ts", ".", payload>>

\* Signature headers: none, the HMAC-SHA256 hex digest under the webhook
\* secret, and something else (Kick signs with RSA).
KickSignatures(message_id, payload) ==
    { NoSignature,
      Prefixed("", Hmac("sha256", KickSecret, KickSignedMessage(message_id, payload))),
      Prefixed("", <<"rsa">>) }

\* Requests with a JSON object in the body come with every header combination;
\* those the handler rejects for their body come unsigned and untyped.
KickRequests ==
    UNION { { KickRequest(i, sig, t, pl) : sig \in KickSignatures(i, pl) } :
            <<i, t, pl>> \in (MsgIds \cup {NoId}) \X (KickEventTypes \cup {NoneVal}) \X {"live", "not-live"} }
    \cup { KickRequest(i, NoSignature, NoneVal, pl) :
            <<i, pl>> \in (MsgIds \cup {NoId}) \X (KickPayloads \ {"live", "not-live"}) }
    \cup { KickRequest(i, NoSignature, t, "list") : <<i, t>> \in MsgIds \X KickEventTypes }

\* verify_kick_signature(message_id, timestamp, body, signature)
verify_kick_signature(message_id, payload, signature) ==
    signature = Prefixed("", Hmac("sha256", KickSecret, KickSignedMessage(message_id, payload)))

\* message_id = f"kick_{datetime.utcnow().strftime('%Y%m%d%H%M%S%f')}": an id
\* made of the time of the delivery, which no earlier delivery had.  Generated
\* ids are the negative numbers, header ids the positive ones.
kick_generated_id(events) == 0 - (Cardinality({ e \in events : e < 0 }) + 1)

kick_event_exists_never(events, message_id) == FALSE

kick_event_exists(events, message_id) == message_id \in events

\* The state a Kick handler works on.
KkState(events, ann, disc, calls) == [events |-> events, ann |-> ann, disc |-> disc, calls |-> calls]

\* One iteration of the loop of Kick's handle_stream_online without the test
\* for an active announcement, and as it is: as for Twitch, after the check
\* that the guild has no active announcement of the streamer.
kick_post_announcement_unchecked(st, guild, configured, postOk) ==
    post_announcement(st, guild, configured, postOk)

kick_post_announcement(st, guild, configured, postOk) ==
    IF guild \notin configured THEN st
    ELSE IF ActiveRows(st.ann, guild) # {} THEN st
    ELSE IF guild \notin postOk THEN [st EXCEPT !.calls = @ + 1]
    ELSE [st EXCEPT !.calls = @ + 1,
                    !.disc = Append(@, "live"),
                    !.ann = Append(@, [guild |-> guild, msg |-> Len(st.disc) + 1, ended |-> FALSE])]

RECURSIVE kick_online_loop(_, _, _, _)
kick_online_loop(st, guilds, configured, postOk) ==
    IF guilds = {} THEN st
    ELSE LET g == SetMin(guilds)
         IN kick_online_loop(kick_post_announcement(st, g, configured, postOk),
                             guilds \ {g}, configured, postOk)

\* Kick's handle_stream_online(payload, ..., event_id); mark_event_processed
\* changes no field the model keeps.
kick_handle_stream_online(st, sub, configured, postOk) ==
    IF ~sub.exists \/ guild_count(sub) = 0 THEN st
    ELSE kick_online_loop(st, sub.tracked_guild_ids, configured, postOk)

\* Kick's handle_stream_offline(payload, ..., event_id).
kick_handle_stream_offline(st, sub, editOk) ==
    IF ~sub.exists THEN st
    ELSE offline_loop(st, sub.tracked_guild_ids, editOk, "first")

\* handle_livestream_status_updated(payload, event_id)
handle_livestream_status_updated(st, payload, sub, configured, ok) ==
    IF payload = "live" THEN kick_handle_stream_online(st, sub, configured, ok)
    ELSE kick_handle_stream_offline(st, sub, ok)

\* payload.get(...) raises AttributeError when the payload is no JSON object.
payload_get_raises(payload) == payload = "list"

\* kick_webhook(): the response and the state after it.  The result of
\* verify_kick_signature is logged and decides nothing.  payload.get is
\* called outside every try when the request has no event type header, and
\* inside a try with a finally and no except after the duplicate check.
kick_webhook(st, req, sub, configured, ok) ==
    LET message_id == IF req.message_id = NoId THEN kick_generated_id(st.events) ELSE req.message_id
        is_valid == req.signature = NoSignature
                        \/ verify_kick_signature(message_id, req.payload, req.signature)
        event_type == IF req.event_type = NoneVal THEN "unknown" ELSE req.event_type
    IN IF req.payload = "not-json" THEN [st |-> st, resp |-> Response(400, "Invalid JSON")]
       ELSE IF req.payload = "empty" THEN [st |-> st, resp |-> Response(400, "Empty payload")]
       ELSE IF payload_get_raises(req.payload) /\ req.event_type = NoneVal
           THEN [st |-> st, resp |-> FrameworkError]
       ELSE IF kick_event_exists(st.events, message_id)
           THEN [st |-> st, resp |-> Response(200, "Duplicate event")]
       ELSE IF payload_get_raises(req.payload) THEN [st |-> st, resp |-> FrameworkError]
       ELSE LET recorded == [st EXCEPT !.events = @ \cup {message_id}]
            IN IF event_type \in {"livestream.status.updated", "stream.online", "stream.offline", "live"}
               THEN [st |-> handle_livestream_status_updated(recorded, req.payload, sub, configured, ok),
                     resp |-> Response(200, "success")]
               ELSE [st |-> recorded, resp |-> Response(200, "success")]

\* The guilds for which the handling of req can call Discord.
KickCalled(req, sub, configured, ann) ==
    IF req.event_type # "livestream.status.updated" \/ ~sub.exists THEN {}
    ELSE IF req.payload = "live"
        THEN sub.tracked_guild_ids \cap configured
    ELSE IF req.payload = "not-live"
        THEN { g \in sub.tracked_guild_ids : ActiveRows(ann, g) # {} }
    ELSE {}

NoKickRequest == KickRequest(NoId, NoSignature, NoneVal, "not-json")

KickStart ==
    /\ kkEvents = {}
    /\ kkAnn = <<>>
    /\ kkDiscord = <<>>
    /\ kkLast = [req |-> NoKickRequest, handled |-> FALSE, resp |-> Response(0, ""), calls |-> 0]

\* The Kick endpoint before any request, with no subscription record.
KickIdle == KickStart /\ kkSub = NoRecord /\ kkConfigured = {}

\* A request arrives at POST /api/webhooks/kick and is handled to the end.
KickDeliver ==
    \E req \in KickRequests :
      \E ok \in SUBSET KickCalled(req, kkSub, kkConfigured, kkAnn) :
        LET out == kick_webhook(KkState(kkEvents, kkAnn, kkDiscord, 0), req, kkSub, kkConfigured, ok)
        IN /\ Cardinality(out.st.events) <= MaxKickEvents
           /\ kkEvents' = out.st.events
           /\ kkAnn' = out.st.ann
           /\ kkDiscord' = out.st.disc
           /\ kkLast' = [req |-> req, handled |-> TRUE, resp |-> out.resp, calls |-> out.st.calls]
           /\ UNCHANGED <<kkSub, kkConfigured>>
           /\ UNCHANGED exceptKick

KickNext == KickDeliver

(***************************************************************************)
(* Stripe webhook: src/api/blueprints/subscriptions.py                     *)
(***************************************************************************)
\* The Stripe event ids (evt_...) of the model.
StripeEventIds == {1, 2}

\* Number of rows the Subscriptions table can take.
MaxSubscriptionRows == 2

StripeSecret == "whsec"

StripeSubIds == {1}

StripeEventTypes ==
    { "checkout.session.completed", "customer.subscription.updated", "customer.subscription.deleted",
      "invoice.payment_failed", "invoice.payment_succeeded", "customer.created" }

\* event['type'] and the fields of event['data']['object'] the handlers read.
StripeEvent(type, guild_id, tier, subscription, status) ==
    [type |-> type, guild_id |-> guild_id, tier |-> tier, subscription |-> subscription, status |-> status]

NoEvent == StripeEvent("none", NoId, "", NoId, "")

StripeEvents ==
    { StripeEvent("checkout.session.completed", g, t, sid, "") :
        <<g, t, sid>> \in (Guilds \cup {NoId}) \X {"premium_plus_ai", NoneVal} \X (StripeSubIds \cup {NoId}) }
    \cup { StripeEvent("customer.subscription.updated", NoId, "", sid, st) :
        <<sid, st>> \in StripeSubIds \X {"active", "past_due"} }
    \cup { StripeEvent("customer.subscription.deleted", NoId, "", sid, "") : sid \in StripeSubIds }
    \cup { StripeEvent(t, NoId, "", sid, "") :
        <<t, sid>> \in {"invoice.payment_failed", "invoice.payment_succeeded"} \X (StripeSubIds \cup {NoId}) }
    \cup { StripeEvent("customer.created", NoId, "", NoId, "") }

\* The signed payload: Stripe signs the timestamp and the body, and the body
\* holds the event id.
StripePayload(id, event) == <<"t", id, event>>

StripeValidSignature(id, event) == Prefixed("v1=", Hmac("sha256", StripeSecret, StripePayload(id, event)))

StripeWrongKeySignature(id, event) == Prefixed("v1=", Hmac("sha256", OtherSecret, StripePayload(id, event)))

StripeRequest(id, event, signature) == [id |-> id, event |-> event, signature |-> signature]

\* StripeService.verify_webhook_signature(payload, signature, webhook_secret):
\* stripe.Webhook.construct_event, every exception giving None.
stripe_verify_webhook_signature(req) == req.signature = StripeValidSignature(req.id, req.event)

\* The state a Stripe handler works on; writes counts the DAO writes of the
\* request.
StState(subs, guild, writes) == [subs |-> subs, guild |-> guild, writes |-> writes]

SubscriptionRow(guild_id, tier, sid, status) ==
    [guild_id |-> guild_id, tier |-> tier, stripe_subscription_id |-> sid, status |-> status]

RowsOf(subs, sid) == { i \in 1..Len(subs) : subs[i].stripe_subscription_id = sid }

\* SubscriptionDao.get_by_stripe_subscription_id: the first matching row.
get_by_stripe_subscription_id(subs, sid) == subs[SetMin(RowsOf(subs, sid))]

\* SubscriptionDao.update_by_stripe_subscription_id(sid, status=...)
update_by_stripe_subscription_id(st, sid, status) ==
    [st EXCEPT !.writes = @ + 1,
               !.subs = [i \in 1..Len(st.subs) |->
                            IF st.subs[i].stripe_subscription_id = sid
                            THEN [st.subs[i] EXCEPT !.status = status] ELSE st.subs[i]]]

\* UPDATE Guilds SET subscription_tier = tier, subscription_status = status
update_guild(st, guild_id, tier, status) ==
    [st EXCEPT !.writes = @ + 1, !.guild[guild_id] = [tier |-> tier, status |-> status]]

\* UPDATE Guilds SET subscription_status = status
update_guild_status(st, guild_id, status) ==
    [st EXCEPT !.writes = @ + 1, !.guild[guild_id].status = status]

\* SubscriptionDao.create_subscription(...).  The DAO is outside this
\* repository; for a stripe_subscription_id the table already holds it
\* inserts a second row ("insert"), replaces the row ("upsert") or raises on
\* a unique key ("unique").
StripeDaoModes == {"insert", "upsert", "unique"}

create_subscription(st, dao, guild_id, tier, sid) ==
    LET row == SubscriptionRow(guild_id, tier, sid, "active")
    IN IF RowsOf(st.subs, sid) = {} \/ dao = "insert"
       THEN [st |-> [st EXCEPT !.writes = @ + 1, !.subs = Append(@, row)], raised |-> FALSE]
       ELSE IF dao = "upsert"
       THEN [st |-> [st EXCEPT !.writes = @ + 1,
                               !.subs = [i \in 1..Len(st.subs) |->
                                            IF i \in RowsOf(st.subs, sid) THEN row ELSE st.subs[i]]],
             raised |-> FALSE]
       ELSE [st |-> st, raised |-> TRUE]

\* handle_checkout_completed(session); found says whether
\* stripe_service.get_subscription returned the subscription.
handle_checkout_completed(st, dao, session, found) ==
    LET tier == IF session.tier = NoneVal THEN "premium" ELSE session.tier
    IN IF session.guild_id = NoId THEN [st |-> st, raised |-> FALSE]
       ELSE IF session.subscription = NoId THEN [st |-> st, raised |-> FALSE]
       ELSE IF ~found THEN [st |-> st, raised |-> FALSE]
       ELSE LET created == create_subscription(st, dao, session.guild_id, tier, session.subscription)
            IN IF created.raised THEN created
               ELSE [st |-> update_guild(created.st, session.guild_id, tier, "active"), raised |-> FALSE]

\* handle_subscription_updated(subscription)
handle_subscription_updated(st, subscription) ==
    LET updated == update_by_stripe_subscription_id(st, subscription.subscription, subscription.status)
    IN IF RowsOf(st.subs, subscription.subscription) = {} THEN updated
       ELSE update_guild_status(updated,
                get_by_stripe_subscription_id(updated.subs, subscription.subscription).guild_id,
                subscription.status)

\* handle_subscription_deleted(subscription), and a handler that leaves the
\* tier of the guild as it is.
handle_subscription_deleted_keeps_tier(st, subscription) ==
    IF RowsOf(st.subs, subscription.subscription) = {} THEN st
    ELSE update_guild_status(update_by_stripe_subscription_id(st, subscription.subscription, "canceled"),
             get_by_stripe_subscription_id(st.subs, subscription.subscription).guild_id,
             "canceled")

handle_subscription_deleted(st, subscription) ==
    IF RowsOf(st.subs, subscription.subscription) = {} THEN st
    ELSE update_guild(update_by_stripe_subscription_id(st, subscription.subscription, "canceled"),
             get_by_stripe_subscription_id(st.subs, subscription.subscription).guild_id,
             "free", "canceled")

\* handle_payment_failed(invoice)
handle_payment_failed(st, invoice) ==
    IF invoice.subscription = NoId THEN st
    ELSE LET updated == update_by_stripe_subscription_id(st, invoice.subscription, "past_due")
         IN IF RowsOf(st.subs, invoice.subscription) = {} THEN updated
            ELSE update_guild_status(updated,
                     get_by_stripe_subscription_id(updated.subs, invoice.subscription).guild_id, "past_due")

\* handle_payment_succeeded(invoice)
handle_payment_succeeded(st, invoice) ==
    IF invoice.subscription = NoId THEN st
    ELSE LET updated == update_by_stripe_subscription_id(st, invoice.subscription, "active")
         IN IF RowsOf(st.subs, invoice.subscription) = {} THEN updated
            ELSE LET record == get_by_stripe_subscription_id(updated.subs, invoice.subscription)
                 IN update_guild(updated, record.guild_id, record.tier, "active")

\* stripe_webhook(): the response and the state after it.
stripe_webhook(st, req, secret, dao, found) ==
    IF req.signature = NoSignature THEN [st |-> st, resp |-> Response(400, "No signature")]
    ELSE IF ~secret THEN [st |-> st, resp |-> Response(500, "Webhook secret not configured")]
    ELSE IF ~stripe_verify_webhook_signature(req) THEN [st |-> st, resp |-> Response(400, "Invalid signature")]
    ELSE LET event == req.event
             out == CASE event.type = "checkout.session.completed" ->
                            handle_checkout_completed(st, dao, event, found)
                      [] event.type = "customer.subscription.updated" ->
                            [st |-> handle_subscription_updated(st, event), raised |-> FALSE]
                      [] event.type = "customer.subscription.deleted" ->
                            [st |-> handle_subscription_deleted(st, event), raised |-> FALSE]
                      [] event.type = "invoice.payment_failed" ->
                            [st |-> handle_payment_failed(st, event), raised |-> FALSE]
                      [] event.type = "invoice.payment_succeeded" ->
                            [st |-> handle_payment_succeeded(st, event), raised |-> FALSE]
                      [] OTHER -> [st |-> st, raised |-> FALSE]
         IN IF out.raised THEN [st |-> out.st, resp |-> Response(500, "error")]
            ELSE [st |-> out.st, resp |-> Response(200, "success")]

\* The requests Stripe and others can send in a state: an event id keeps the
\* event it was first handled with.
StripeRequestsIn(handled) ==
    UNION { { StripeRequest(id, ev, sig) :
                sig \in {NoSignature, StripeValidSignature(id, ev), StripeWrongKeySignature(id, ev)} } :
            <<id, ev>> \in { x \in StripeEventIds \X StripeEvents :
                               handled[x[1]] = NoEvent \/ handled[x[1]] = x[2] } }

StripeStart ==
    /\ stSubs = <<>>
    /\ stGuild = [g \in Guilds |-> [tier |-> "free", status |-> "none"]]
    /\ stHandled = [id \in StripeEventIds |-> NoEvent]
    /\ stLast = [valid |-> FALSE, redelivery |-> FALSE, deleted |-> NoId, downgraded |-> {},
                 resp |-> Response(0, ""), writes |-> 0]

\* The Stripe endpoint before any request.
StripeIdle == StripeStart /\ stSecret = TRUE /\ stDao = "insert"

\* A request arrives at POST /api/subscriptions/stripe/webhook and is handled
\* to the end.  stLast.deleted is the subscription id of the event when the
\* request is a verified customer.subscription.deleted; stLast.downgraded are
\* the guilds that a processed deletion has downgraded, emptied by the next
\* processed checkout.session.completed.
StripeDeliver ==
    \E req \in StripeRequestsIn(stHandled), found \in BOOLEAN :
        LET valid == stSecret /\ stripe_verify_webhook_signature(req)
            out == stripe_webhook(StState(stSubs, stGuild, 0), req, stSecret, stDao, found)
        IN /\ found \/ (valid /\ req.event.type = "checkout.session.completed"
                          /\ req.event.guild_id # NoId /\ req.event.subscription # NoId)
           /\ Len(out.st.subs) <= MaxSubscriptionRows
           /\ stSubs' = out.st.subs
           /\ stGuild' = out.st.guild
           /\ stHandled' = IF valid /\ out.resp.status = 200
                           THEN [stHandled EXCEPT ![req.id] = req.event] ELSE stHandled
           /\ stLast' = [valid |-> valid, redelivery |-> valid /\ stHandled[req.id] # NoEvent,
                         deleted |-> IF valid /\ req.event.type = "customer.subscription.deleted"
                                     THEN req.event.subscription ELSE NoId,
                         downgraded |->
                             IF valid /\ out.resp.status = 200
                                      /\ req.event.type = "customer.subscription.deleted"
                                      /\ RowsOf(stSubs, req.event.subscription) # {}
                             THEN stLast.downgraded
                                      \cup {stSubs[SetMin(RowsOf(stSubs, req.event.subscription))].guild_id}
                             ELSE IF valid /\ out.resp.status = 200
                                           /\ req.event.type = "checkout.session.completed"
                             THEN {}
                             ELSE stLast.downgraded,
                         resp |-> out.resp, writes |-> out.st.writes]
           /\ UNCHANGED <<stSecret, stDao>>
           /\ UNCHANGED exceptStripe

StripeNext == StripeDeliver

(***************************************************************************)
(* YouTube WebSub: src/api/blueprints/youtube_webhooks.py and              *)
(* src/api/services/youtube_websub_service.py                              *)
(***************************************************************************)
\* Largest number of <entry> elements in a notification.
MaxEntries == 2

YouTubeSecret == "hub-secret"

Channels == {1, 2}

Videos == {1, 2}

\* An <entry>: its yt:channelId and yt:videoId, NoId for a missing element.
Entries == [channel_id : Channels, video_id : Videos] \cup {[channel_id |-> NoId, video_id |-> 1]}

RECURSIVE SeqsUpTo(_, _)
SeqsUpTo(S, n) ==
    IF n = 0 THEN {<<>>}
    ELSE LET shorter == SeqsUpTo(S, n - 1)
         IN shorter \cup { Append(q, x) : <<q, x>> \in shorter \X S }

\* Request bodies: nothing, bytes that are no XML, a feed of entries.
YouTubeBody(kind, entries) == [kind |-> kind, entries |-> entries]

YouTubeBodies ==
    {YouTubeBody("empty", <<>>), YouTubeBody("not-xml", <<>>)}
    \cup { YouTubeBody("feed", es) : es \in SeqsUpTo(Entries, MaxEntries) }

\* The X-Hub-Signature header "algorithm=hexdigest": the part up to and
\* including the first "=", and the rest.
YouTubeExpectedSignature(body) == Prefixed("sha1=", Hmac("sha1", YouTubeSecret, body))

YouTubeSignatures(body) ==
    { NoSignature,
      YouTubeExpectedSignature(body),
      Prefixed("sha1=", Hmac("sha1", OtherSecret, body)),
      Prefixed("sha256=", Hmac("sha256", YouTubeSecret, body)),
      Prefixed("", Hmac("sha1", YouTubeSecret, body)) }

YouTubeRequest(signature, body) == [signature |-> signature, body |-> body]

YouTubeRequests == UNION { { YouTubeRequest(sig, b) : sig \in YouTubeSignatures(b) } : b \in YouTubeBodies }

\* YouTubeWebSubService.verify_signature(signature_header, payload), with a
\* header that accepts every sha1 signature, and as the service computes it.
verify_signature_any_sha1(secret, signature_header, payload) == secret /\ signature_header.prefix = "sha1="

verify_signature(secret, signature_header, payload) ==
    IF ~secret THEN FALSE
    ELSE IF signature_header.prefix = "" THEN FALSE   \* split('=', 1) gives one part: ValueError
    ELSE IF signature_header.prefix # "sha1=" THEN FALSE
    ELSE signature_header.tag = Hmac("sha1", YouTubeSecret, payload)

\* A row of YoutubeWebhookEvents, as add_youtube_webhook_event is given it.
YouTubeEvent(event_id, channel_id, video_id, event_type) ==
    [event_id |-> event_id, channel_id |-> channel_id, video_id |-> video_id, event_type |-> event_type]

\* f"{channel_id}-{video_id}-live_start"
youtube_event_id(channel_id, video_id) == <<channel_id, video_id, "live_start">>

\* The UNIQUE constraint on event_id: whether the insert of a row with this
\* id raises IntegrityError.  The rows the session has inserted and not yet
\* committed count as well.
integrity_error(events, event_id) == \E row \in BagToSet(events) : row.event_id = event_id

\* What the loop over the entries has done so far: the committed rows of the
\* table, the rows inserted in the open transaction of the session, and the
\* numbers of inserts that returned and of duplicates skipped.
Stored(events, pending, stored, skipped) ==
    [events |-> events, pending |-> pending, stored |-> stored, skipped |-> skipped]

\* await session.rollback(): the open transaction of the session, with every
\* row inserted in it, is undone.  get_db_session opens one session for the
\* request (autocommit=False) and commits once, when the block is left.
session_rollback(st) == [st EXCEPT !.pending = EmptyBag]

\* await session.commit() of get_db_session, when the block is left.
session_commit(st) == [st EXCEPT !.events = @ (+) st.pending, !.pending = EmptyBag]

\* The loop over the entries: an entry is stored when it has both ids and
\* get_video_details says the video is live; add_youtube_webhook_event of a
\* known event id raises IntegrityError, the session is rolled back and the
\* loop goes on.
RECURSIVE store_entries(_, _, _)
store_entries(st, entries, live) ==
    IF entries = <<>> THEN st
    ELSE LET entry == Head(entries)
             event_id == youtube_event_id(entry.channel_id, entry.video_id)
         IN IF entry.channel_id = NoId \/ entry.video_id = NoId
               THEN store_entries(st, Tail(entries), live)
            ELSE IF entry.video_id \notin live
               THEN store_entries(st, Tail(entries), live)
            ELSE IF integrity_error(st.events (+) st.pending, event_id)
               THEN store_entries(session_rollback([st EXCEPT !.skipped = @ + 1]), Tail(entries), live)
            ELSE store_entries(
                     [st EXCEPT !.pending = @ (+) SetToBag({YouTubeEvent(event_id, entry.channel_id,
                                                                         entry.video_id, "live_start")}),
                                !.stored = @ + 1],
                     Tail(entries), live)

\* handle_webhook_notification(): the response and the event rows after it.
YouTubeReply(events, status, body) ==
    [events |-> events, resp |-> Response(status, body), stored |-> 0, skipped |-> 0]

handle_webhook_notification(events, req, secret, live) ==
    IF req.signature # NoSignature /\ ~verify_signature(secret, req.signature, req.body)
        THEN YouTubeReply(events, 403, "Signature verification failed")
    ELSE IF req.signature = NoSignature /\ secret THEN YouTubeReply(events, 403, "Missing signature")
    ELSE IF req.body.kind = "empty" THEN YouTubeReply(events, 204, "Empty request")
    ELSE IF req.body.kind = "not-xml" THEN YouTubeReply(events, 400, "Invalid XML")
    ELSE IF req.body.entries = <<>> THEN YouTubeReply(events, 200, "No entries")
    ELSE LET st == session_commit(store_entries(Stored(events, EmptyBag, 0, 0), req.body.entries, live))
         IN [events |-> st.events, resp |-> Response(200, "Acknowledged"),
             stored |-> st.stored, skipped |-> st.skipped]

VideosOf(body) == { body.entries[i].video_id : i \in 1..Len(body.entries) }

\* The <channel, video> pairs of the entries of a body that have both ids
\* and whose video is live.
LiveEntries(body, live) ==
    { <<body.entries[i].channel_id, body.entries[i].video_id>> :
        i \in { j \in 1..Len(body.entries) :
                  /\ body.entries[j].channel_id # NoId /\ body.entries[j].video_id # NoId
                  /\ body.entries[j].video_id \in live } }

YouTubeStart ==
    /\ ytEvents = EmptyBag
    /\ ytLast = [signed |-> FALSE, verified |-> FALSE, resp |-> Response(0, ""),
                 live |-> {}, stored |-> 0, skipped |-> 0]

\* The YouTube endpoint before any request.
YouTubeIdle == YouTubeStart /\ ytSecret = TRUE

\* What the YouTube Data API can report as live to a request: nothing is
\* asked unless the request gets as far as the loop over the entries.
LiveAnswers(events, req, secret) ==
    IF handle_webhook_notification(events, req, secret, {}).resp.body = "Acknowledged"
    THEN SUBSET VideosOf(req.body)
    ELSE {{}}

\* A notification arrives at POST /api/webhooks/youtube/ and is handled to
\* the end; live are the videos the YouTube Data API reports as live.
YouTubeNotify ==
    \E req \in YouTubeRequests :
      \E live \in LiveAnswers(ytEvents, req, ytSecret) :
        LET out == handle_webhook_notification(ytEvents, req, ytSecret, live)
        IN /\ ytEvents' = out.events
           /\ ytLast' = [signed |-> req.signature # NoSignature,
                         verified |-> ytSecret /\ req.signature = YouTubeExpectedSignature(req.body),
                         resp |-> out.resp,
                         live |-> LiveEntries(req.body, live),
                         stored |-> out.stored, skipped |-> out.skipped]
           /\ UNCHANGED ytSecret
           /\ UNCHANGED exceptYouTube

YouTubeNext == YouTubeNotify

(***************************************************************************)
(* Authentication: src/api/middleware/auth_decorators.py,                  *)
(* src/api/middleware/admin_auth.py, src/api/blueprints/admin.py,          *)
(* src/api/blueprints/youtube.py, src/discord_oauth.py                     *)
(***************************************************************************)
\* timedelta(hours=24) of create_jwt.
TokenLifetimeHours == 24

\* The time stops here.
MaxTime == 36

\* Number of tokens create_jwt issues.
MaxTokens == 2

JwtSecret == "jwt-secret"

\* os.getenv('JWT_SECRET', 'your-secret-key') and os.getenv('JWT_SECRET'):
\* the key create_jwt signs with and the key the decorators verify with.
\* secret says whether the variable is set.
signing_key(secret) == IF secret THEN JwtSecret ELSE "your-secret-key"

verification_key(secret) == IF secret THEN JwtSecret ELSE NoneVal

Users == {1, 2}

\* A JWT: the alg of its header, the claims user_id and exp, its signature.
Jwt(alg, key, user_id, exp) ==
    [alg |-> alg, user_id |-> user_id, exp |-> exp, sig |-> Hmac(alg, key, <<user_id, exp>>)]

NoToken == [alg |-> "", user_id |-> NoId, exp |-> 0, sig |-> <<>>]

\* DiscordOAuth.create_jwt(user_data) at time now.
create_jwt(user_id, now, secret) == Jwt("HS256", signing_key(secret), user_id, now + TokenLifetimeHours)

\* jwt.decode(token, key, algorithms=['HS256']): the algorithm of the header
\* is checked first, then the key is prepared, which raises TypeError for
\* the key None, then the signature and the exp claim are verified.
jwt_decode(token, key, now) ==
    IF token.alg # "HS256" THEN "InvalidTokenError"
    ELSE IF key = NoneVal THEN "TypeError"
    ELSE IF token.sig # Hmac("HS256", key, <<token.user_id, token.exp>>) THEN "InvalidTokenError"
    ELSE IF token.exp <= now THEN "ExpiredSignatureError"
    ELSE "ok"

\* The Authorization header: absent, another scheme, or "Bearer <token>".
AuthHeader(scheme, token) == [scheme |-> scheme, token |-> token]

AuthHeaders(tokens) ==
    { AuthHeader(NoneVal, NoToken), AuthHeader("Basic ", NoToken), AuthHeader("Bearer ", NoToken) }
    \cup { AuthHeader("Bearer ", t) : t \in tokens }
    \cup { AuthHeader("Bearer ", Jwt("HS256", OtherSecret, u, MaxTime + TokenLifetimeHours)) : u \in Users }
    \cup { AuthHeader("Bearer ", Jwt("none", "", u, MaxTime + TokenLifetimeHours)) : u \in Users }

AuthRoutes ==
    { "admin.check_admin_status", "admin.get_global_settings", "admin.get_admin_users",
      "admin.create_admin_user", "youtube.validate_channel" }

\* The JSON body of POST /api/admin/users.
AdminUserBodies ==
    [discord_id : Users, role : {"admin", "super_admin", "owner"}] \cup {[discord_id |-> NoId, role |-> "admin"]}

NoBody == [discord_id |-> NoId, role |-> ""]

AuthRequest(route, auth, body) == [route |-> route, auth |-> auth, body |-> body]

AuthRequests(tokens) ==
    { AuthRequest(r, h, NoBody) : <<r, h>> \in (AuthRoutes \ {"admin.create_admin_user"}) \X AuthHeaders(tokens) }
    \cup { AuthRequest("admin.create_admin_user", h, b) : <<h, b>> \in AuthHeaders(tokens) \X AdminUserBodies }

\* What a decorator or handler works on: the request, the time, AdminUsers,
\* request.user_id if set, and whether the route function's body has run.
AuthContext(req, now, secret, admins) ==
    [req |-> req, now |-> now, secret |-> secret, admins |-> admins, has_user_id |-> FALSE, user_id |-> NoId,
     executed |-> FALSE, resp |-> Response(0, "")]

Respond(ctx, status, body) == [ctx EXCEPT !.resp = Response(status, body)]

\* A decorator's wrapper either returns a response itself or calls the
\* function it wraps: the operators below give the context after the
\* wrapper's own checks, a response being set when it returned one.
Returned(ctx) == ctx.resp.status # 0

\* auth_decorators.require_auth(f).  The TypeError is neither of the two
\* exceptions the wrapper catches.
require_auth(ctx) ==
    LET auth_header == ctx.req.auth
        payload == jwt_decode(auth_header.token, verification_key(ctx.secret), ctx.now)
    IN IF auth_header.scheme # "Bearer " THEN Respond(ctx, 401, "Missing authorization header")
       ELSE CASE payload = "ExpiredSignatureError" -> Respond(ctx, 401, "Token expired")
              [] payload = "InvalidTokenError" -> Respond(ctx, 401, "Invalid token")
              [] payload = "TypeError" -> [ctx EXCEPT !.resp = FrameworkError]
              [] OTHER -> [ctx EXCEPT !.has_user_id = TRUE, !.user_id = auth_header.token.user_id]

\* The require_auth that src/api/blueprints/youtube.py defines for itself:
\* its wrapper calls f(*args, **kwargs) and nothing else.
youtube_require_auth(ctx) == ctx

\* admin_auth.require_admin(f)
require_admin(ctx) ==
    IF ~ctx.has_user_id THEN Respond(ctx, 401, "Authentication required")
    ELSE IF ctx.admins[ctx.user_id] = "none" THEN Respond(ctx, 403, "Forbidden")
    ELSE ctx

\* admin_auth.require_super_admin(f)
require_super_admin(ctx) ==
    IF ~ctx.has_user_id THEN Respond(ctx, 401, "Authentication required")
    ELSE IF ctx.admins[ctx.user_id] # "super_admin" THEN Respond(ctx, 403, "Forbidden")
    ELSE ctx

\* The route functions.
check_admin_status(ctx) == [Respond(ctx, 200, "success") EXCEPT !.executed = TRUE]

get_global_settings(ctx) == [Respond(ctx, 200, "success") EXCEPT !.executed = TRUE]

get_admin_users(ctx) == [Respond(ctx, 200, "success") EXCEPT !.executed = TRUE]

create_admin_user(ctx) ==
    LET data == ctx.req.body
        ran == [ctx EXCEPT !.executed = TRUE]
    IN IF data.discord_id = NoId THEN Respond(ran, 400, "Missing required field")
       ELSE IF data.role \notin {"admin", "super_admin"} THEN Respond(ran, 400, "Role must be 'admin' or 'super_admin'")
       ELSE [Respond(ran, 200, "Admin user created successfully") EXCEPT !.admins[data.discord_id] = data.role]

validate_channel(ctx) == [Respond(ctx, 200, "success") EXCEPT !.executed = TRUE]

\* The routes with their decorators, outermost first.
AuthDispatch(ctx) ==
    CASE ctx.req.route = "admin.check_admin_status" ->
            LET authed == require_auth(ctx)
            IN IF Returned(authed) THEN authed ELSE check_admin_status(authed)
      [] ctx.req.route = "admin.get_global_settings" ->
            LET authed == require_auth(ctx)
                admin == IF Returned(authed) THEN authed ELSE require_admin(authed)
            IN IF Returned(admin) THEN admin ELSE get_global_settings(admin)
      [] ctx.req.route = "admin.get_admin_users" ->
            LET admin == require_super_admin(ctx)
            IN IF Returned(admin) THEN admin ELSE get_admin_users(admin)
      [] ctx.req.route = "admin.create_admin_user" ->
            LET admin == require_super_admin(ctx)
            IN IF Returned(admin) THEN admin ELSE create_admin_user(admin)
      [] ctx.req.route = "youtube.validate_channel" ->
            LET authed == youtube_require_auth(ctx)
            IN IF Returned(authed) THEN authed ELSE validate_channel(authed)

\* The routes whose function is wrapped by a decorator named require_auth.
RequireAuthRoutes == {"admin.check_admin_status", "admin.get_global_settings", "youtube.validate_channel"}

\* The request carries "Authorization: Bearer <token>" with a token that is
\* an unexpired HS256 JWT signed with the JWT secret.
CarriesValidJwt(req, now) ==
    /\ req.auth.scheme = "Bearer "
    /\ req.auth.token.user_id \in Users
    /\ req.auth.token = Jwt("HS256", JwtSecret, req.auth.token.user_id, req.auth.token.exp)
    /\ req.auth.token.exp > now

AuthStart ==
    /\ auNow = 0
    /\ auTokens = {}
    /\ auLast = [route |-> "", valid |-> FALSE, role |-> "none", body_ok |-> FALSE,
                 minted |-> FALSE, age |-> 0, user_id |-> NoId,
                 resp |-> Response(0, ""), executed |-> FALSE]

\* The API before any login, with no administrators.
AuthIdle == AuthStart /\ auSecret = TRUE /\ auAdmins = [u \in Users |-> "none"]

\* A user finishes the Discord OAuth flow and is given a JWT.
Login ==
    \E u \in Users :
        /\ Cardinality(auTokens) < MaxTokens
        /\ auTokens' = auTokens \cup {create_jwt(u, auNow, auSecret)}
        /\ UNCHANGED <<auNow, auSecret, auAdmins, auLast>>
        /\ UNCHANGED exceptAuth

\* Half a token lifetime passes.
Tick ==
    /\ auNow + TokenLifetimeHours \div 2 <= MaxTime
    /\ auNow' = auNow + TokenLifetimeHours \div 2
    /\ UNCHANGED <<auSecret, auTokens, auAdmins, auLast>>
    /\ UNCHANGED exceptAuth

\* A request arrives at one of the routes and is answered.  auLast also
\* says whether the token was issued by create_jwt, how many hours ago, and
\* the request.user_id the decorator set.
AuthHandle ==
    \E req \in AuthRequests(auTokens) :
        LET out == AuthDispatch(AuthContext(req, auNow, auSecret, auAdmins))
            valid == CarriesValidJwt(req, auNow)
            minted == req.auth.scheme = "Bearer " /\ req.auth.token \in auTokens
        IN /\ auAdmins' = out.admins
           /\ auLast' = [route |-> req.route, valid |-> valid,
                         minted |-> minted,
                         age |-> IF minted THEN auNow - (req.auth.token.exp - TokenLifetimeHours) ELSE 0,
                         user_id |-> IF out.has_user_id THEN out.user_id ELSE NoId,
                         role |-> IF valid THEN auAdmins[req.auth.token.user_id] ELSE "none",
                         body_ok |-> req.body = NoBody \/ (req.body.discord_id # NoId /\ req.body.role # "owner"),
                         resp |-> out.resp, executed |-> out.executed]
           /\ UNCHANGED <<auNow, auSecret, auTokens>>
           /\ UNCHANGED exceptAuth

AuthNext == Login \/ Tick \/ AuthHandle

(***************************************************************************)
(* Guild-management routes: src/api/blueprints/reaction_roles.py,          *)
(* embeds.py, guilds.py, portal.py and the billing routes of               *)
(* subscriptions.py.  The caller is one authenticated user (require_auth   *)
(* has set request.user_id).  DAO calls succeed; every embed has a channel.*)
(***************************************************************************)
RRIds == {1, 2}

EmbedIds == {1, 2}

\* A ReactionRoles or Embeds row.
Row(guild_id, name, is_sent) == [exists |-> TRUE, guild_id |-> guild_id, name |-> name, is_sent |-> is_sent]

NoRow == [exists |-> FALSE, guild_id |-> NoId, name |-> "", is_sent |-> FALSE]

\* A ReactionRoles row with its message_id column (NoId is None).
ReactionRole(guild_id, name, is_sent, message_id) ==
    [exists |-> TRUE, guild_id |-> guild_id, name |-> name, is_sent |-> is_sent, message_id |-> message_id]

NoReactionRole ==
    [exists |-> FALSE, guild_id |-> NoId, name |-> "", is_sent |-> FALSE, message_id |-> NoId]

\* The messages a channel can hold before the model stops posting.
MaxMessages == 3

\* The tables the routes read and write.
Db(rr, messages, embeds, settings, tier, sub) ==
    [rr |-> rr, messages |-> messages, embeds |-> embeds, settings |-> settings, tier |-> tier, sub |-> sub]

\* The body of a request: none, the empty JSON object, an object that fails
\* the handler's validation, an object that passes it.
Bodies == {"absent", "empty", "invalid", "valid"}

GuildRequest(route, guild_id, id, body, tier) ==
    [route |-> route, guild_id |-> guild_id, id |-> id, body |-> body, tier |-> tier]

\* What the world outside the handler answers during a request.
GuildEnv(json_raises, can_create, discord_ok, stripe_ok, live_key, lenient, immediately) ==
    [json_raises |-> json_raises, can_create |-> can_create, discord_ok |-> discord_ok,
     stripe_ok |-> stripe_ok, live_key |-> live_key, lenient |-> lenient, immediately |-> immediately]

\* What a handler gives back: the tables, the response, the number of DAO
\* writes and of Discord message posts, edits and deletes it made, and
\* whether it returned, sent or copied the row the request names.
Reply(db, status, body) ==
    [db |-> db, resp |-> Response(status, body), writes |-> 0, calls |-> 0, returned |-> FALSE]

Done(db, status, body, writes, calls, returned) ==
    [db |-> db, resp |-> Response(status, body), writes |-> writes, calls |-> calls, returned |-> returned]

\* request.get_json(): "raise" when it raises (no JSON body, Flask 2.1 and
\* later), "none" when it returns None (earlier versions), else the body.
get_json(req, env) ==
    IF req.body = "absent" THEN (IF env.json_raises THEN "raise" ELSE "none") ELSE req.body

\* `not data`
not_data(data) == data \in {"none", "empty"}

\* The smallest id the table has free (AUTO_INCREMENT, within the model's ids).
FreeIds(table) == { i \in DOMAIN table : ~table[i].exists }

\* ---- src/api/blueprints/reaction_roles.py ----
\* `not rr or rr.guild_id != int(guild_id)`, and with the guild left out.
reaction_role_not_found_by_id_only(rr, guild_id) == ~rr.exists

reaction_role_not_found(rr, guild_id) == ~rr.exists \/ rr.guild_id # guild_id

get_reaction_roles(db, req, has_admin, env) ==
    IF ~has_admin THEN Reply(db, 403, "You don't have permission to manage this server")
    ELSE Reply(db, 200, "success")

get_reaction_role(db, req, has_admin, env) ==
    IF ~has_admin THEN Reply(db, 403, "You don't have permission to manage this server")
    ELSE IF reaction_role_not_found(db.rr[req.id], req.guild_id) THEN Reply(db, 404, "Reaction role not found")
    ELSE Done(db, 200, "success", 0, 0, TRUE)

create_reaction_role(db, req, has_admin, env) ==
    LET data == get_json(req, env)
    IN IF ~has_admin THEN Reply(db, 403, "You don't have permission to manage this server")
       ELSE IF data = "raise" THEN Reply(db, 500, "error")
       ELSE IF not_data(data) THEN Reply(db, 400, "Request body is required")
       ELSE IF ~env.can_create THEN Reply(db, 403, "limit reached")
       ELSE IF data = "invalid" THEN Reply(db, 400, "Name is required")
       ELSE Done([db EXCEPT !.rr[SetMin(FreeIds(db.rr))] = ReactionRole(req.guild_id, "a", FALSE, NoId)],
                 201, "Reaction role draft created successfully", 1, 0, FALSE)

update_reaction_role(db, req, has_admin, env) ==
    LET data == get_json(req, env)
        existing == db.rr[req.id]
    IN IF ~has_admin THEN Reply(db, 403, "You don't have permission to manage this server")
       ELSE IF data = "raise" THEN Reply(db, 500, "error")
       ELSE IF not_data(data) THEN Reply(db, 400, "Request body is required")
       ELSE IF reaction_role_not_found(existing, req.guild_id) THEN Reply(db, 404, "Reaction role not found")
       ELSE Done([db EXCEPT !.rr[req.id].name = "b"], 200, "Reaction role updated successfully",
                 1, IF existing.is_sent THEN 1 ELSE 0, TRUE)

\* int(posted_message['id']): Discord gives every message it posts a new id.
posted_message_id(messages) == Cardinality(messages) + 1

\* dao.mark_as_sent(rr_id, message_id), and storing the flag without the id.
mark_as_sent_without_id(rr, message_id) == [rr EXCEPT !.is_sent = TRUE]

mark_as_sent(rr, message_id) == [rr EXCEPT !.is_sent = TRUE, !.message_id = message_id]

send_reaction_role(db, req, has_admin, env) ==
    LET data == get_json(req, env)
        rr == db.rr[req.id]
        message_id == posted_message_id(db.messages)
    IN IF ~has_admin THEN Reply(db, 403, "You don't have permission to manage this server")
       ELSE IF data = "raise" THEN Reply(db, 500, "error")
       ELSE IF reaction_role_not_found(rr, req.guild_id) THEN Reply(db, 404, "Reaction role not found")
       ELSE IF rr.is_sent THEN Reply(db, 400, "Reaction role already sent to Discord")
       ELSE IF ~env.discord_ok THEN Done(db, 500, "Failed to post message to Discord", 0, 1, TRUE)
       ELSE Done([db EXCEPT !.messages = @ \cup {<<req.id, message_id>>},
                            !.rr[req.id] = mark_as_sent(rr, message_id)],
                 200, "Reaction role sent to Discord successfully", 1, 1, TRUE)

duplicate_reaction_role(db, req, has_admin, env) ==
    LET original == db.rr[req.id]
    IN IF ~has_admin THEN Reply(db, 403, "You don't have permission to manage this server")
       ELSE IF ~env.can_create THEN Reply(db, 403, "limit reached")
       ELSE IF reaction_role_not_found(original, req.guild_id) THEN Reply(db, 404, "Reaction role not found")
       ELSE Done([db EXCEPT !.rr[SetMin(FreeIds(db.rr))] = ReactionRole(original.guild_id, original.name, FALSE, NoId)],
                 201, "Reaction role duplicated successfully", 1, 0, TRUE)

delete_reaction_role(db, req, has_admin, env) ==
    LET rr == db.rr[req.id]
    IN IF ~has_admin THEN Reply(db, 403, "You don't have permission to manage this server")
       ELSE IF reaction_role_not_found(rr, req.guild_id) THEN Reply(db, 404, "Reaction role not found")
       ELSE Done([db EXCEPT !.rr[req.id] = NoReactionRole], 200, "Reaction role deleted successfully",
                 1, IF rr.is_sent THEN 1 ELSE 0, FALSE)

get_reaction_role_stats(db, req, has_admin, env) ==
    IF ~has_admin THEN Reply(db, 403, "You don't have permission to manage this server")
    ELSE Reply(db, 200, "success")

\* ---- src/api/blueprints/embeds.py ----
\* `not embed_data or embed_data.guild_id != str(guild_id)`
embed_not_found(embed_data, guild_id) == ~embed_data.exists \/ embed_data.guild_id # guild_id

get_embeds(db, req, has_admin, env) ==
    IF ~has_admin THEN Reply(db, 403, "You must be a server administrator")
    ELSE Reply(db, 200, "success")

get_embed(db, req, has_admin, env) ==
    LET embed_data == db.embeds[req.id]
    IN IF ~has_admin THEN Reply(db, 403, "You must be a server administrator")
       ELSE IF ~embed_data.exists THEN Reply(db, 404, "Embed not found")
       ELSE IF embed_data.guild_id # req.guild_id THEN Reply(db, 404, "Embed not found")
       ELSE Done(db, 200, "success", 0, 0, TRUE)

create_embed(db, req, has_admin, env) ==
    LET data == get_json(req, env)
    IN IF ~has_admin THEN Reply(db, 403, "You must be a server administrator")
       ELSE IF data = "raise" THEN Reply(db, 500, "error")
       ELSE IF not_data(data) THEN Reply(db, 400, "No data provided")
       ELSE IF data = "invalid" THEN Reply(db, 400, "Embed name is required")
       ELSE IF ~env.can_create THEN Reply(db, 403, "limit reached")
       ELSE Done([db EXCEPT !.embeds[SetMin(FreeIds(db.embeds))] = Row(req.guild_id, "a", FALSE)],
                 201, "Embed created successfully", 1, 0, FALSE)

update_embed(db, req, has_admin, env) ==
    LET data == get_json(req, env)
    IN IF ~has_admin THEN Reply(db, 403, "You must be a server administrator")
       ELSE IF embed_not_found(db.embeds[req.id], req.guild_id) THEN Reply(db, 404, "Embed not found")
       ELSE IF data = "raise" THEN Reply(db, 500, "error")
       ELSE IF not_data(data) THEN Reply(db, 400, "No data provided")
       ELSE IF data = "invalid" THEN Reply(db, 400, "Invalid embed configuration")
       ELSE Done([db EXCEPT !.embeds[req.id].name = "b"], 200, "Embed updated successfully", 1, 0, TRUE)

delete_embed(db, req, has_admin, env) ==
    LET embed_data == db.embeds[req.id]
    IN IF ~has_admin THEN Reply(db, 403, "You must be a server administrator")
       ELSE IF embed_not_found(embed_data, req.guild_id) THEN Reply(db, 404, "Embed not found")
       ELSE Done([db EXCEPT !.embeds[req.id] = NoRow], 200, "Embed deleted successfully",
                 1, IF embed_data.is_sent THEN 1 ELSE 0, FALSE)

send_embed(db, req, has_admin, env) ==
    LET embed_data == db.embeds[req.id]
    IN IF ~has_admin THEN Reply(db, 403, "You must be a server administrator")
       ELSE IF embed_not_found(embed_data, req.guild_id) THEN Reply(db, 404, "Embed not found")
       ELSE IF embed_data.is_sent
           THEN IF env.discord_ok THEN Done(db, 200, "Embed updated in Discord", 0, 1, TRUE)
                ELSE Done(db, 500, "Failed to edit message in Discord", 0, 1, TRUE)
       ELSE IF ~env.discord_ok THEN Done(db, 500, "Failed to post message to Discord", 0, 1, TRUE)
       ELSE Done([db EXCEPT !.embeds[req.id].is_sent = TRUE], 200, "Embed sent to Discord successfully",
                 2, 1, TRUE)

duplicate_embed(db, req, has_admin, env) ==
    LET source_embed == db.embeds[req.id]
    IN IF ~has_admin THEN Reply(db, 403, "You must be a server administrator")
       ELSE IF embed_not_found(source_embed, req.guild_id) THEN Reply(db, 404, "Embed not found")
       ELSE IF ~env.can_create THEN Reply(db, 403, "limit reached")
       ELSE Done([db EXCEPT !.embeds[SetMin(FreeIds(db.embeds))] = Row(req.guild_id, source_embed.name, FALSE)],
                 201, "Embed duplicated successfully", 1, 0, TRUE)

get_embed_stats(db, req, has_admin, env) ==
    IF ~has_admin THEN Reply(db, 403, "You must be a server administrator")
    ELSE Reply(db, 200, "success")

\* The image goes to the upload directory: no DAO write, no Discord call.
upload_embed_image(db, req, has_admin, env) ==
    IF ~has_admin THEN Reply(db, 403, "You must be a server administrator to upload images")
    ELSE IF req.body # "valid" THEN Reply(db, 400, "No image file provided")
    ELSE Reply(db, 200, "success")

\* ---- src/api/blueprints/guilds.py ----
get_guild_config_hybrid(db, req, has_admin, env) ==
    IF ~has_admin THEN Reply(db, 403, "You don't have permission to manage this server")
    ELSE Reply(db, 200, "success")

update_guild_config_hybrid(db, req, has_admin, env) ==
    LET data == get_json(req, env)
    IN IF ~has_admin THEN Reply(db, 403, "You don't have permission to manage this server")
       ELSE IF data = "raise" THEN Reply(db, 500, "Internal server error")
       ELSE IF not_data(data) THEN Reply(db, 400, "Settings data is required")
       ELSE IF data = "invalid" THEN Reply(db, 400, "Invalid settings")
       ELSE Done([db EXCEPT !.settings[req.guild_id] = "new"], 200, "Settings updated successfully", 1, 0, FALSE)

\* UpdateLevelingSettingsRequest(**request.json) inside its own try: every
\* failure is a 400; whether the empty object validates is the model class's
\* business (env.lenient).
update_leveling_settings(db, req, has_admin, env) ==
    IF ~has_admin THEN Reply(db, 403, "You don't have permission to manage this server")
    ELSE IF req.body \in {"absent", "invalid"} \/ (req.body = "empty" /\ ~env.lenient)
        THEN Reply(db, 400, "Invalid request data")
    ELSE Done([db EXCEPT !.settings[req.guild_id] = "new"], 200, "Leveling settings updated successfully",
              1, 0, FALSE)

update_ai_settings(db, req, has_admin, env) ==
    IF ~has_admin THEN Reply(db, 403, "You don't have permission to manage this server")
    ELSE IF req.body \in {"absent", "invalid"} \/ (req.body = "empty" /\ ~env.lenient)
        THEN Reply(db, 400, "Invalid request data")
    ELSE Done([db EXCEPT !.settings[req.guild_id] = "new"], 200, "AI settings updated successfully",
              1, 0, FALSE)

\* ---- src/api/blueprints/portal.py ----
get_portal_config(db, req, has_admin, env) ==
    IF ~has_admin THEN Reply(db, 403, "You don't have permission to manage this server")
    ELSE Reply(db, 200, "success")

\* An invalid body is one whose portal_cost is no integer: int() raises.
update_portal_config(db, req, has_admin, env) ==
    LET data == get_json(req, env)
    IN IF ~has_admin THEN Reply(db, 403, "You don't have permission to manage this server")
       ELSE IF data = "raise" THEN Reply(db, 500, "Internal server error")
       ELSE IF not_data(data) THEN Reply(db, 400, "Request body is required")
       ELSE IF data = "invalid" THEN Reply(db, 500, "Internal server error")
       ELSE Done([db EXCEPT !.settings[req.guild_id] = "new"], 200,
                 "Portal configuration updated successfully", 1, 0, FALSE)

\* ---- billing routes of src/api/blueprints/subscriptions.py ----
\* `not data or 'guild_id' not in data`
guild_id_missing(data, req) == not_data(data) \/ req.guild_id = NoId

get_subscription(db, req, has_admin, env) ==
    IF ~has_admin THEN Reply(db, 403, "You don't have permission to view this server's subscription")
    ELSE Reply(db, 200, "success")

\* The tier of the request, 'premium' if the body has none.
tier_of(req) == IF req.tier = NoneVal THEN "premium" ELSE req.tier

create_checkout(db, req, has_admin, env) ==
    LET data == get_json(req, env)
        tier == tier_of(req)
    IN IF data = "raise" THEN Reply(db, 500, "Internal server error")
       ELSE IF guild_id_missing(data, req) THEN Reply(db, 400, "guild_id is required")
       ELSE IF tier \notin {"premium", "premium_plus_ai"} THEN Reply(db, 400, "Invalid tier")
       ELSE IF ~has_admin
           THEN Reply(db, 403, "You don't have permission to manage this server's subscription")
       ELSE IF db.sub[req.guild_id] \in {"active", "canceling"} /\ tier = "premium"
           THEN Reply(db, 400, "Guild already has an active premium subscription")
       ELSE IF ~env.stripe_ok THEN Reply(db, 500, "Failed to create checkout session")
       ELSE Reply(db, 200, "success")

\* update_subscription(status='canceled' if immediately else 'active',
\* cancel_at_period_end=True)
cancel_subscription(db, req, has_admin, env) ==
    LET data == get_json(req, env)
    IN IF data = "raise" THEN Reply(db, 500, "Internal server error")
       ELSE IF guild_id_missing(data, req) THEN Reply(db, 400, "guild_id is required")
       ELSE IF ~has_admin
           THEN Reply(db, 403, "You don't have permission to manage this server's subscription")
       ELSE IF db.sub[req.guild_id] = "none" THEN Reply(db, 404, "No active subscription found")
       ELSE IF ~env.stripe_ok THEN Reply(db, 500, "Failed to cancel subscription with Stripe")
       ELSE Done([db EXCEPT !.sub[req.guild_id] = IF env.immediately THEN "canceled" ELSE "canceling"],
                 200, "success", 1, 0, FALSE)

customer_portal(db, req, has_admin, env) ==
    LET data == get_json(req, env)
    IN IF data = "raise" THEN Reply(db, 500, "Internal server error")
       ELSE IF guild_id_missing(data, req) THEN Reply(db, 400, "guild_id is required")
       ELSE IF ~has_admin
           THEN Reply(db, 403, "You don't have permission to manage this server's subscription")
       ELSE IF db.sub[req.guild_id] = "none" THEN Reply(db, 404, "No active Stripe subscription")
       ELSE IF ~env.stripe_ok THEN Reply(db, 500, "Failed to create portal session")
       ELSE Reply(db, 200, "success")

test_upgrade_guild(db, req, has_admin, env) ==
    LET data == get_json(req, env)
        tier == tier_of(req)
    IN IF env.live_key THEN Reply(db, 403, "Test endpoint disabled when using live Stripe keys")
       ELSE IF data = "raise" THEN Reply(db, 500, "Internal server error")
       ELSE IF guild_id_missing(data, req) THEN Reply(db, 400, "guild_id is required")
       ELSE IF tier \notin {"free", "premium", "premium_plus_ai"} THEN Reply(db, 400, "Invalid tier")
       ELSE IF ~has_admin
           THEN Reply(db, 403, "You don't have permission to manage this server's subscription")
       ELSE Done([db EXCEPT !.tier[req.guild_id] = tier], 200, "Guild upgraded (test mode)", 1, 0, FALSE)

\* ---- the routes ----
\* Routes on one reaction role or embed: /guilds/<guild_id>/.../<id>[/...].
ReactionRoleItemRoutes ==
    { "get_reaction_role", "update_reaction_role", "send_reaction_role", "duplicate_reaction_role",
      "delete_reaction_role" }

EmbedItemRoutes == { "get_embed", "update_embed", "delete_embed", "send_embed", "duplicate_embed" }

\* Routes on a guild: /guilds/<guild_id>/...
GuildUrlRoutes ==
    { "get_reaction_roles", "create_reaction_role", "get_reaction_role_stats",
      "get_embeds", "create_embed", "get_embed_stats", "upload_embed_image",
      "get_guild_config_hybrid", "update_guild_config_hybrid", "update_leveling_settings",
      "update_ai_settings", "get_portal_config", "update_portal_config", "get_subscription" }

\* Routes that name the guild in the JSON body.
BillingBodyRoutes == { "create_checkout", "cancel_subscription", "customer_portal", "test_upgrade_guild" }

\* The routes that read a request body, and those that create a row.
BodyRoutes ==
    { "create_reaction_role", "update_reaction_role", "send_reaction_role", "create_embed", "update_embed",
      "upload_embed_image", "update_guild_config_hybrid", "update_leveling_settings", "update_ai_settings",
      "update_portal_config" }

CreatingRoutes == { "create_reaction_role", "duplicate_reaction_role", "create_embed", "duplicate_embed" }

\* Requests to the reaction-role and embed routes.
ContentRoutes ==
    ReactionRoleItemRoutes \cup EmbedItemRoutes
    \cup { "get_reaction_roles", "create_reaction_role", "get_reaction_role_stats",
           "get_embeds", "create_embed", "get_embed_stats", "upload_embed_image" }

ContentRequests ==
    { GuildRequest(r, g, i, b, NoneVal) :
        <<r, g, i, b>> \in { x \in (ReactionRoleItemRoutes \cup EmbedItemRoutes) \X Guilds \X RRIds \X Bodies :
                               x[4] = "valid" \/ (x[1] \in BodyRoutes /\ x[4] # "invalid") } }
    \cup { GuildRequest(r, g, NoId, b, NoneVal) :
        <<r, g, b>> \in { x \in (GuildUrlRoutes \cap ContentRoutes) \X Guilds \X Bodies :
                            x[3] = "valid" \/ x[1] \in BodyRoutes } }

\* Requests to the guild configuration, portal and billing routes.
ConfigRequests ==
    { GuildRequest(r, g, NoId, b, NoneVal) :
        <<r, g, b>> \in { x \in (GuildUrlRoutes \ ContentRoutes) \X Guilds \X Bodies :
                            x[3] = "valid" \/ x[1] \in BodyRoutes } }
    \cup { GuildRequest(r, g, NoId, "valid", t) :
        <<r, g, t>> \in BillingBodyRoutes \X Guilds \X {NoneVal, "free", "gold"} }
    \cup { GuildRequest(r, NoId, NoId, b, NoneVal) : <<r, b>> \in BillingBodyRoutes \X {"absent", "empty"} }

\* What the outside world can answer to a request: only the answers the
\* route asks for vary.
Choice(varies) == IF varies THEN BOOLEAN ELSE {FALSE}

GuildEnvsFor(req) ==
    { GuildEnv(jr, ~full, ~down, ~sdown, live, len, imm) :
        <<jr, full, down, sdown, live, len, imm>> \in
            Choice(req.body = "absent" /\ req.route \in BodyRoutes \cup BillingBodyRoutes)
            \X Choice(req.route \in CreatingRoutes)
            \X Choice(req.route \in {"send_reaction_role", "send_embed"})
            \X Choice(req.route \in {"create_checkout", "cancel_subscription", "customer_portal"})
            \X Choice(req.route = "test_upgrade_guild")
            \X Choice(req.route \in {"update_leveling_settings", "update_ai_settings"} /\ req.body = "empty")
            \X Choice(req.route = "cancel_subscription") }

GuildDispatch(db, req, has_admin, env) ==
    CASE req.route = "get_reaction_roles" -> get_reaction_roles(db, req, has_admin, env)
      [] req.route = "get_reaction_role" -> get_reaction_role(db, req, has_admin, env)
      [] req.route = "create_reaction_role" -> create_reaction_role(db, req, has_admin, env)
      [] req.route = "update_reaction_role" -> update_reaction_role(db, req, has_admin, env)
      [] req.route = "send_reaction_role" -> send_reaction_role(db, req, has_admin, env)
      [] req.route = "duplicate_reaction_role" -> duplicate_reaction_role(db, req, has_admin, env)
      [] req.route = "delete_reaction_role" -> delete_reaction_role(db, req, has_admin, env)
      [] req.route = "get_reaction_role_stats" -> get_reaction_role_stats(db, req, has_admin, env)
      [] req.route = "get_embeds" -> get_embeds(db, req, has_admin, env)
      [] req.route = "get_embed" -> get_embed(db, req, has_admin, env)
      [] req.route = "create_embed" -> create_embed(db, req, has_admin, env)
      [] req.route = "update_embed" -> update_embed(db, req, has_admin, env)
      [] req.route = "delete_embed" -> delete_embed(db, req, has_admin, env)
      [] req.route = "send_embed" -> send_embed(db, req, has_admin, env)
      [] req.route = "duplicate_embed" -> duplicate_embed(db, req, has_admin, env)
      [] req.route = "get_embed_stats" -> get_embed_stats(db, req, has_admin, env)
      [] req.route = "upload_embed_image" -> upload_embed_image(db, req, has_admin, env)
      [] req.route = "get_guild_config_hybrid" -> get_guild_config_hybrid(db, req, has_admin, env)
      [] req.route = "update_guild_config_hybrid" -> update_guild_config_hybrid(db, req, has_admin, env)
      [] req.route = "update_leveling_settings" -> update_leveling_settings(db, req, has_admin, env)
      [] req.route = "update_ai_settings" -> update_ai_settings(db, req, has_admin, env)
      [] req.route = "get_portal_config" -> get_portal_config(db, req, has_admin, env)
      [] req.route = "update_portal_config" -> update_portal_config(db, req, has_admin, env)
      [] req.route = "get_subscription" -> get_subscription(db, req, has_admin, env)
      [] req.route = "create_checkout" -> create_checkout(db, req, has_admin, env)
      [] req.route = "cancel_subscription" -> cancel_subscription(db, req, has_admin, env)
      [] req.route = "customer_portal" -> customer_portal(db, req, has_admin, env)
      [] req.route = "test_upgrade_guild" -> test_upgrade_guild(db, req, has_admin, env)

\* check_admin_sync(request.user_id, guild_id)
check_admin_sync(adminOf, guild_id) == guild_id \in adminOf

\* The row a request on one reaction role or embed names.
TargetRow(db, req) ==
    IF req.route \in ReactionRoleItemRoutes THEN db.rr[req.id]
    ELSE IF req.route \in EmbedItemRoutes THEN db.embeds[req.id]
    ELSE NoRow

\* Why a request on one reaction role is answered before the row is looked
\* up, if it is: the body is checked first, get_json raises, or the guild
\* is over its limit.
AnsweredBeforeLookup(req, env) ==
    IF req.route = "update_reaction_role" /\ req.body \in {"absent", "empty"} THEN "no body"
    ELSE IF req.route = "send_reaction_role" /\ req.body = "absent" /\ env.json_raises THEN "get_json raises"
    ELSE IF req.route = "duplicate_reaction_role" /\ ~env.can_create THEN "over the limit"
    ELSE ""

GuildStart ==
    /\ gmRR = [i \in RRIds |-> IF i = 1 THEN ReactionRole(2, "a", TRUE, 1) ELSE NoReactionRole]
    /\ gmMessages = {<<1, 1>>}
    /\ gmEmbeds = [i \in EmbedIds |-> IF i = 1 THEN Row(2, "a", TRUE) ELSE NoRow]
    /\ gmSettings = [g \in Guilds |-> "old"]
    /\ gmTier = [g \in Guilds |-> "free"]
    /\ gmLast = [route |-> "", id |-> NoId, named |-> FALSE, has_admin |-> FALSE, foreign |-> FALSE, early |-> "",
                 resp |-> Response(0, ""), writes |-> 0, calls |-> 0, returned |-> FALSE]

\* The guild-management routes before any request, the caller admin of no guild.
GuildIdle == GuildStart /\ gmAdminOf = {} /\ gmSub = [g \in Guilds |-> "none"]

\* The authenticated caller sends one of the requests to a guild-management
\* route and it is handled to the end.
GuildHandle(requests) ==
    \E req \in requests :
      \E env \in GuildEnvsFor(req) :
        LET db == Db(gmRR, gmMessages, gmEmbeds, gmSettings, gmTier, gmSub)
            has_admin == check_admin_sync(gmAdminOf, req.guild_id)
            target == TargetRow(db, req)
            out == GuildDispatch(db, req, has_admin, env)
        IN /\ req.route \in CreatingRoutes =>
                  FreeIds(IF req.route \in ReactionRoleItemRoutes \cup {"create_reaction_role"}
                          THEN gmRR ELSE gmEmbeds) # {}
           /\ Cardinality(out.db.messages) <= MaxMessages
           /\ gmRR' = out.db.rr
           /\ gmMessages' = out.db.messages
           /\ gmEmbeds' = out.db.embeds
           /\ gmSettings' = out.db.settings
           /\ gmTier' = out.db.tier
           /\ gmSub' = out.db.sub
           /\ gmLast' = [route |-> req.route, id |-> req.id,
                         named |-> req.guild_id # NoId,
                         has_admin |-> has_admin,
                         foreign |-> target.exists /\ target.guild_id # req.guild_id,
                         early |-> AnsweredBeforeLookup(req, env),
                         resp |-> out.resp, writes |-> out.writes, calls |-> out.calls,
                         returned |-> out.returned]
           /\ UNCHANGED gmAdminOf
           /\ UNCHANGED exceptGuild

ContentHandle == GuildHandle(ContentRequests)

ConfigHandle == GuildHandle(ConfigRequests)

ContentNext == ContentHandle

ConfigNext == ConfigHandle

(***************************************************************************)
(* Twitch subscription manager:                                            *)
(* src/api/services/twitch_subscription_manager.py, with the create and    *)
(* delete calls of src/api/services/twitch_eventsub_service.py.  One       *)
(* broadcaster; TwitchEventSubDao keeps tracked_guild_ids as a set of      *)
(* guild ids and guild_count as its size.                                  *)
(***************************************************************************)
\* Number of subscription ids Twitch hands out.
MaxUpstreamIds == 4

\* The TwitchEventSub row of the broadcaster.
SubRecord(tracked, online_id, offline_id) ==
    [exists |-> TRUE, tracked_guild_ids |-> tracked,
     online_subscription_id |-> online_id, offline_subscription_id |-> offline_id]

NoSubRecord ==
    [exists |-> FALSE, tracked_guild_ids |-> {},
     online_subscription_id |-> NoId, offline_subscription_id |-> NoId]

\* The state the manager works on: the row, the EventSub subscriptions that
\* exist at Twitch (id and type), the next id Twitch hands out, and the
\* numbers of subscriptions created and deleted by the call.
SmState(record, upstream, next_id) ==
    [record |-> record, upstream |-> upstream, next_id |-> next_id, created |-> 0, deleted |-> 0]

\* What Twitch answers during a call: get_user_info finds the user, the
\* two creations are accepted, the deletions are accepted.
SubEnv(user_found, online_ok, offline_ok, delete_ok) ==
    [user_found |-> user_found, online_ok |-> online_ok, offline_ok |-> offline_ok, delete_ok |-> delete_ok]

\* create_stream_online_subscription / create_stream_offline_subscription:
\* the id on 202; None on 409 (a subscription of the type exists) and on
\* every other answer.
create_stream_subscription(st, type, ok) ==
    IF ~ok \/ \E sub \in st.upstream : sub.type = type THEN [st |-> st, id |-> NoId]
    ELSE [st |-> [st EXCEPT !.upstream = @ \cup {[id |-> st.next_id, type |-> type]},
                            !.next_id = @ + 1,
                            !.created = @ + 1],
          id |-> st.next_id]

\* TwitchEventSubService.delete_subscription(session, subscription_id)
delete_subscription(st, subscription_id, ok) ==
    IF ~ok THEN st
    ELSE [st EXCEPT !.upstream = { sub \in @ : sub.id # subscription_id },
                    !.deleted = @ + Cardinality({ sub \in st.upstream : sub.id = subscription_id })]

\* eventsub_dao.add_guild_to_subscription(broadcaster_user_id, guild_id)
add_guild_to_subscription(record, guild_id) ==
    [record EXCEPT !.tracked_guild_ids = @ \cup {guild_id}]

\* eventsub_dao.remove_guild_from_subscription(broadcaster_user_id, guild_id):
\* the row after it; the call returns the row's guild_count.
remove_guild_from_subscription(record, guild_id) ==
    [record EXCEPT !.tracked_guild_ids = @ \ {guild_id}]

\* `if existing:` of subscribe_to_streamer, and with the check left out.
subscription_exists_never(record) == FALSE

subscription_exists(record) == record.exists

\* subscribe_to_streamer(username, guild_id): the state after it and the
\* success flag it returns.
subscribe_to_streamer(st, guild_id, env) ==
    IF ~env.user_found THEN [st |-> st, success |-> FALSE]
    ELSE IF subscription_exists(st.record)
        THEN [st |-> [st EXCEPT !.record = add_guild_to_subscription(@, guild_id)], success |-> TRUE]
    ELSE LET online == create_stream_subscription(st, "stream.online", env.online_ok)
             offline == create_stream_subscription(online.st, "stream.offline", env.offline_ok)
         IN IF online.id = NoId \/ offline.id = NoId THEN [st |-> offline.st, success |-> FALSE]
            ELSE [st |-> [offline.st EXCEPT !.record = SubRecord({guild_id}, online.id, offline.id)],
                  success |-> TRUE]

\* unsubscribe_from_streamer(username, guild_id)
unsubscribe_from_streamer(st, guild_id, env) ==
    IF ~env.user_found THEN [st |-> st, success |-> TRUE]
    ELSE IF ~st.record.exists THEN [st |-> st, success |-> TRUE]
    ELSE LET subscription == st.record
             removed == remove_guild_from_subscription(subscription, guild_id)
             remaining_count == Cardinality(removed.tracked_guild_ids)
         IN IF remaining_count = 0
            THEN LET online == delete_subscription(st, subscription.online_subscription_id, env.delete_ok)
                     offline == delete_subscription(online, subscription.offline_subscription_id, env.delete_ok)
                 IN [st |-> [offline EXCEPT !.record = NoSubRecord], success |-> TRUE]
            ELSE [st |-> [st EXCEPT !.record = removed], success |-> TRUE]

\* The answers of Twitch that a call asks for: the others are fixed.
SubEnvsFor(op, record, guild_id) ==
    { SubEnv(found, on, off, del) :
        <<found, on, off, del>> \in
            BOOLEAN
            \X (IF op = "subscribe" /\ ~record.exists THEN BOOLEAN ELSE {TRUE})
            \X (IF op = "subscribe" /\ ~record.exists THEN BOOLEAN ELSE {TRUE})
            \X (IF op = "unsubscribe" /\ record.exists /\ record.tracked_guild_ids \subseteq {guild_id}
                THEN BOOLEAN ELSE {TRUE}) }

\* Every call to Twitch that the call made succeeded.
UpstreamSucceeded(env) == env.user_found /\ env.online_ok /\ env.offline_ok /\ env.delete_ok

SubsStart ==
    /\ smRecord = NoSubRecord
    /\ smUpstream = {}
    /\ smNextId = 1
    /\ smTracking = {}
    /\ smFailed = FALSE
    /\ smLast = [op |-> "", guild |-> NoId, success |-> FALSE, created |-> 0, deleted |-> 0]

\* The manager before any call.
SubsIdle == SubsStart

\* A guild adds the streamer: subscribe_to_streamer runs to the end.
\* smTracking are the guilds whose last call was a subscribe that returned
\* success; smFailed says whether a call to Twitch has failed so far.
Subscribe ==
    \E guild_id \in Guilds :
      \E env \in SubEnvsFor("subscribe", smRecord, guild_id) :
        LET out == subscribe_to_streamer(SmState(smRecord, smUpstream, smNextId), guild_id, env)
        IN /\ out.st.next_id <= MaxUpstreamIds + 1
           /\ smRecord' = out.st.record
           /\ smUpstream' = out.st.upstream
           /\ smNextId' = out.st.next_id
           /\ smTracking' = IF out.success THEN smTracking \cup {guild_id} ELSE smTracking
           /\ smFailed' = (smFailed \/ ~UpstreamSucceeded(env))
           /\ smLast' = [op |-> "subscribe", guild |-> guild_id, success |-> out.success,
                         created |-> out.st.created, deleted |-> out.st.deleted]
           /\ UNCHANGED exceptSubs

\* A guild removes the streamer: unsubscribe_from_streamer runs to the end.
Unsubscribe ==
    \E guild_id \in Guilds :
      \E env \in SubEnvsFor("unsubscribe", smRecord, guild_id) :
        LET out == unsubscribe_from_streamer(SmState(smRecord, smUpstream, smNextId), guild_id, env)
        IN /\ smRecord' = out.st.record
           /\ smUpstream' = out.st.upstream
           /\ smNextId' = out.st.next_id
           /\ smTracking' = IF out.success THEN smTracking \ {guild_id} ELSE smTracking
           /\ smFailed' = (smFailed \/ ~UpstreamSucceeded(env))
           /\ smLast' = [op |-> "unsubscribe", guild |-> guild_id, success |-> out.success,
                         created |-> out.st.created, deleted |-> out.st.deleted]
           /\ UNCHANGED exceptSubs

SubsNext == Subscribe \/ Unsubscribe

\* =====================================================================
\* check_admin of src/api/services/discord_integration.py.
\*
\* The function is run on what Discord answers to its three requests:
\* the guild (or nothing), the member (or nothing) and the list of the
\* guild's roles (empty when the request fails).  Discord sends the
\* permissions of a role as a string.
\* =====================================================================

MaxRoles == 2

RoleIds == {1, 2}

ADMINISTRATOR == 8

MANAGE_GUILD == 32

\* Permission strings: no bit, Administrator, another bit, Manage Guild,
\* and a string int() does not parse.
PermissionStrings == {"0", "8", "16", "32", "x"}

\* int(s): the integer, or ValueError raised.
Parsed(value) == [raised |-> FALSE, value |-> value]

ValueError == [raised |-> TRUE, value |-> 0]

int_of(s) ==
    CASE s = "0" -> Parsed(0)
      [] s = "8" -> Parsed(8)
      [] s = "16" -> Parsed(16)
      [] s = "32" -> Parsed(32)
      [] OTHER -> ValueError

\* get_guild_info: None unless Discord answers 200.  owner_id is NoId
\* when the answer has no such key.
NoGuild == [found |-> FALSE, owner_id |-> NoId]

GuildInfo(owner_id) == [found |-> TRUE, owner_id |-> owner_id]

\* get_guild_member: None unless Discord answers 200.
NoMember == [found |-> FALSE, roles |-> {}]

Member(roles) == [found |-> TRUE, roles |-> roles]

Role(id, permissions) == [id |-> id, permissions |-> permissions]

\* a | b and a & mask for a one-bit mask, on naturals.
RECURSIVE BitOr(_, _)
BitOr(a, b) ==
    IF a = 0 THEN b
    ELSE IF b = 0 THEN a
    ELSE (IF a % 2 = 1 \/ b % 2 = 1 THEN 1 ELSE 0) + 2 * BitOr(a \div 2, b \div 2)

BitAnd(a, mask) == IF (a \div mask) % 2 = 1 THEN mask ELSE 0

\* The loop over guild_roles: the permissions of the roles of the member
\* or-ed together from the left, ValueError as soon as int() raises.
RECURSIVE combine_permissions(_, _, _)
combine_permissions(guild_roles, user_role_ids, combined_permissions) ==
    IF guild_roles = <<>> THEN Parsed(combined_permissions)
    ELSE LET role == Head(guild_roles)
             role_perms == int_of(role.permissions)
         IN IF role.id \notin user_role_ids
            THEN combine_permissions(Tail(guild_roles), user_role_ids, combined_permissions)
            ELSE IF role_perms.raised THEN ValueError
            ELSE combine_permissions(Tail(guild_roles), user_role_ids,
                                     BitOr(combined_permissions, role_perms.value))

\* `bool(combined_permissions & 0x8)` only.
has_permission_admin_only(combined_permissions) == BitAnd(combined_permissions, ADMINISTRATOR) # 0

\* `has_admin or has_manage_guild`
has_permission(combined_permissions) ==
    BitAnd(combined_permissions, ADMINISTRATOR) # 0 \/ BitAnd(combined_permissions, MANAGE_GUILD) # 0

check_admin(user_id, guild, member, guild_roles) ==
    IF ~guild.found THEN FALSE
    ELSE IF guild.owner_id = NoId THEN FALSE                 \* KeyError, caught
    ELSE IF guild.owner_id = user_id THEN TRUE
    ELSE IF ~member.found THEN FALSE
    ELSE IF guild_roles = <<>> THEN FALSE
    ELSE LET combined_permissions == combine_permissions(guild_roles, member.roles, 0)
         IN IF combined_permissions.raised THEN FALSE       \* ValueError, caught
            ELSE has_permission(combined_permissions.value)

\* The lists of roles Discord can answer with.
RoleLists ==
    UNION { [1..n -> { Role(i, p) : <<i, p>> \in RoleIds \X PermissionStrings }] : n \in 0..MaxRoles }

CheckAdminInputs ==
    { [user_id |-> 1, guild |-> g, member |-> m, guild_roles |-> rs] :
        <<g, m, rs>> \in ({NoGuild} \cup { GuildInfo(o) : o \in {NoId, 1, 2} })
                         \X ({NoMember} \cup { Member(r) : r \in SUBSET RoleIds })
                         \X RoleLists }

NotReturned == [done |-> FALSE, value |-> FALSE]

CheckAdminIdle ==
    /\ caInput = [user_id |-> 1, guild |-> NoGuild, member |-> NoMember, guild_roles |-> <<>>]
    /\ caResult = NotReturned

\* check_admin runs on the answers of Discord and returns.
CheckAdmin ==
    /\ ~caResult.done
    /\ caResult' = [done |-> TRUE,
                    value |-> check_admin(caInput.user_id, caInput.guild, caInput.member, caInput.guild_roles)]
    /\ UNCHANGED caInput
    /\ UNCHANGED exceptCheckAdmin

CheckAdminNext == CheckAdmin

(***************************************************************************)
(* Concurrent deliveries of webhook notifications.  Flask serves every     *)
(* delivery in its own thread or worker, and the handlers take no lock:    *)
(* the duplicate test, the insert into the event table and the event       *)
(* handler are separate steps that interleave with those of the other      *)
(* deliveries.  twitch_webhooks.py 91-120, kick_webhooks.py 118-146.       *)
(***************************************************************************)
NumDeliveries == 2

Deliveries == 1..NumDeliveries

Platforms == {"twitch", "kick"}

\* The types a delivery is sent with: one the endpoint has a handler for and
\* one it only logs.
DeliveredTypes(platform) ==
    IF platform = "twitch" THEN {"stream.online", "channel.update"}
                           ELSE {"livestream.status.updated", "channel.followed"}

\* The types the endpoint runs a handler for.
ProcessedTypes(platform) ==
    IF platform = "twitch" THEN {"stream.online", "stream.offline"}
                           ELSE {"livestream.status.updated", "stream.online", "stream.offline", "live"}

\* The event-id column is unique: the insert of a known id is rejected, and
\* create_event raises.
insert_rejected_never(events, event_id) == FALSE

insert_rejected(events, event_id) == event_id \in events

\* The answer of a delivery whose handler code raised.  Twitch catches every
\* exception of the notification branch; Kick has a try ... finally without
\* except around the insert and nothing around the handler.
RaisedAnswer(platform) ==
    IF platform = "twitch" THEN Response(500, "Processing failed") ELSE FrameworkError

NoResponse == Response(0, "none")

ConcurrentIdle ==
    /\ cdPlatform = "twitch"
    /\ cdType = "stream.online"
    /\ cdId = [d \in Deliveries |-> 1]
    /\ cdEvents = {}
    /\ cdPc = [d \in Deliveries |-> "received"]
    /\ cdProcessed = [d \in Deliveries |-> FALSE]
    /\ cdResp = [d \in Deliveries |-> NoResponse]

\* event_dao.event_exists(message_id): a known id is answered as a duplicate.
CheckDuplicate(d) ==
    /\ cdPc[d] = "received"
    /\ IF kick_event_exists(cdEvents, cdId[d])
       THEN /\ cdPc' = [cdPc EXCEPT ![d] = "done"]
            /\ cdResp' = [cdResp EXCEPT ![d] = Response(200, "Duplicate event")]
       ELSE /\ cdPc' = [cdPc EXCEPT ![d] = "checked"]
            /\ UNCHANGED cdResp
    /\ UNCHANGED <<cdPlatform, cdType, cdId, cdEvents, cdProcessed>>
    /\ UNCHANGED exceptConcurrent

\* event_dao.create_event(event_id=message_id, ...): the row is stored, or the
\* insert is rejected and the exception ends the delivery.
RecordEvent(d) ==
    /\ cdPc[d] = "checked"
    /\ IF insert_rejected(cdEvents, cdId[d])
       THEN /\ cdPc' = [cdPc EXCEPT ![d] = "done"]
            /\ cdResp' = [cdResp EXCEPT ![d] = RaisedAnswer(cdPlatform)]
            /\ UNCHANGED cdEvents
       ELSE /\ cdPc' = [cdPc EXCEPT ![d] = "recorded"]
            /\ cdEvents' = cdEvents \cup {cdId[d]}
            /\ UNCHANGED cdResp
    /\ UNCHANGED <<cdPlatform, cdType, cdId, cdProcessed>>
    /\ UNCHANGED exceptConcurrent

\* The dispatch on the type: the handler starts, or the type is only logged
\* and the delivery is answered.
StartProcessing(d) ==
    /\ cdPc[d] = "recorded"
    /\ IF cdType \in ProcessedTypes(cdPlatform)
       THEN /\ cdPc' = [cdPc EXCEPT ![d] = "processing"]
            /\ cdProcessed' = [cdProcessed EXCEPT ![d] = TRUE]
            /\ UNCHANGED cdResp
       ELSE /\ cdPc' = [cdPc EXCEPT ![d] = "done"]
            /\ cdResp' = [cdResp EXCEPT ![d] = Response(200, "success")]
            /\ UNCHANGED cdProcessed
    /\ UNCHANGED <<cdPlatform, cdType, cdId, cdEvents>>
    /\ UNCHANGED exceptConcurrent

\* asyncio.run(handle_...) returns or raises, and the delivery is answered.
FinishProcessing(d) ==
    /\ cdPc[d] = "processing"
    /\ \E raised \in BOOLEAN :
        cdResp' = [cdResp EXCEPT ![d] = IF raised THEN RaisedAnswer(cdPlatform)
                                                  ELSE Response(200, "success")]
    /\ cdPc' = [cdPc EXCEPT ![d] = "done"]
    /\ UNCHANGED <<cdPlatform, cdType, cdId, cdEvents, cdProcessed>>
    /\ UNCHANGED exceptConcurrent

ConcurrentNext ==
    \E d \in Deliveries :
        \/ CheckDuplicate(d)
        \/ RecordEvent(d)
        \/ StartProcessing(d)
        \/ FinishProcessing(d)

(***************************************************************************)
(* YouTube subscription manager:                                           *)
(* src/api/services/youtube_subscription_manager.py.  A row of             *)
(* YoutubeSubscriptions is a pair <<guild_id, channel_id>>; the hub is the *)
(* set of channels whose last accepted request was a subscribe.  A hub     *)
(* request is accepted and answered (True), or fails with a ClientError    *)
(* and changes nothing at the hub (False).                                 *)
(***************************************************************************)
YsState(rows, hub, status) == [rows |-> rows, hub |-> hub, status |-> status]

\* What a call returns: the state after it, the value returned and the hub
\* request it sent ("" when it sent none).
YsResult(st, returned, request) == [st |-> st, returned |-> returned, request |-> request]

\* youtube_dao.count_subscriptions_for_channel(channel_id), and a count over
\* the rows of every channel.
count_subscriptions_for_any_channel(rows, channel_id) == Cardinality(rows)

count_subscriptions_for_channel(rows, channel_id) ==
    Cardinality({ row \in rows : row[2] = channel_id })

\* youtube_dao.update_websub_status(channel_id, status, ...)
update_websub_status(st, channel_id, status) == [st EXCEPT !.status[channel_id] = status]

\* YouTubeSubscriptionManager.add_subscription(guild_id, channel_id)
add_subscription(st, guild_id, channel_id, hub_ok) ==
    IF <<guild_id, channel_id>> \in st.rows THEN YsResult(st, TRUE, "")
    ELSE LET added == [st EXCEPT !.rows = @ \cup {<<guild_id, channel_id>>}]
             subscriptions_count == count_subscriptions_for_channel(added.rows, channel_id)
         IN IF subscriptions_count = 1
            THEN IF hub_ok
                 THEN YsResult(update_websub_status([added EXCEPT !.hub = @ \cup {channel_id}],
                                                    channel_id, "active"),
                               TRUE, "subscribe")
                 ELSE YsResult([update_websub_status(added, channel_id, "failed")
                                   EXCEPT !.rows = @ \ {<<guild_id, channel_id>>}],
                               FALSE, "subscribe")
            ELSE YsResult(added, TRUE, "")

\* YouTubeSubscriptionManager.remove_subscription(guild_id, channel_id)
remove_subscription(st, guild_id, channel_id, hub_ok) ==
    IF <<guild_id, channel_id>> \notin st.rows THEN YsResult(st, FALSE, "")
    ELSE LET removed == [st EXCEPT !.rows = @ \ {<<guild_id, channel_id>>}]
             subscriptions_count == count_subscriptions_for_channel(removed.rows, channel_id)
         IN IF subscriptions_count = 0
            THEN IF hub_ok
                 THEN YsResult(update_websub_status([removed EXCEPT !.hub = @ \ {channel_id}],
                                                    channel_id, "pending"),
                               TRUE, "unsubscribe")
                 ELSE YsResult(update_websub_status(removed, channel_id, "failed"), FALSE, "unsubscribe")
            ELSE YsResult(removed, TRUE, "")

YtSubsStart ==
    /\ ysRows = {}
    /\ ysHub = {}
    /\ ysStatus = [c \in Channels |-> "none"]
    /\ ysLast = [op |-> "", guild |-> NoId, channel |-> NoId, returned |-> FALSE, request |-> ""]

\* The manager before any call.
YtSubsIdle == YtSubsStart

\* A guild adds a channel: add_subscription runs to the end.
AddSubscription ==
    \E guild_id \in Guilds, channel_id \in Channels, hub_ok \in BOOLEAN :
        LET out == add_subscription(YsState(ysRows, ysHub, ysStatus), guild_id, channel_id, hub_ok)
        IN /\ ysRows' = out.st.rows
           /\ ysHub' = out.st.hub
           /\ ysStatus' = out.st.status
           /\ ysLast' = [op |-> "add", guild |-> guild_id, channel |-> channel_id,
                         returned |-> out.returned, request |-> out.request]
           /\ UNCHANGED exceptYtSubs

\* A guild removes a channel: remove_subscription runs to the end.
RemoveSubscription ==
    \E guild_id \in Guilds, channel_id \in Channels, hub_ok \in BOOLEAN :
        LET out == remove_subscription(YsState(ysRows, ysHub, ysStatus), guild_id, channel_id, hub_ok)
        IN /\ ysRows' = out.st.rows
           /\ ysHub' = out.st.hub
           /\ ysStatus' = out.st.status
           /\ ysLast' = [op |-> "remove", guild |-> guild_id, channel |-> channel_id,
                         returned |-> out.returned, request |-> out.request]
           /\ UNCHANGED exceptYtSubs

YtSubsNext == AddSubscription \/ RemoveSubscription

(***************************************************************************)
(* Concurrent add_subscription calls for one YouTube channel, one call per *)
(* guild.  Every call has its own session (get_db_session), so its own     *)
(* transaction: the row it inserts is seen by the other calls only after   *)
(* its commit, when the async with block is left.  The calls run on one    *)
(* event loop and interleave at every await.                               *)
(***************************************************************************)
NumCallers == 2

\* The guilds that call add_subscription for the channel.
Callers == 1..NumCallers

\* The isolation levels under which a transaction reads committed rows only.
IsolationLevels == {"REPEATABLE READ", "READ COMMITTED"}

\* A call: where it is, the committed rows at its first read, whether its
\* row is inserted and not committed, the count it read, whether it sent the
\* subscribe request, the value it is about to return, and whether it has
\* returned.
YcCall(pc, snapshot, pending, count, requested, result) ==
    [pc |-> pc, snapshot |-> snapshot, pending |-> pending, count |-> count,
     requested |-> requested, result |-> result]

NotCalled == YcCall("start", {}, FALSE, 0, FALSE, FALSE)

\* The guilds whose row a SELECT of the call of guild_id sees: the committed
\* rows (as of the first read of the transaction under REPEATABLE READ) and
\* the row the call inserted itself; and a read that sees the uncommitted
\* rows of the other calls as well.
visible_rows_uncommitted(isolation, committed, snapshot, uncommitted, guild_id) ==
    committed \cup uncommitted

visible_rows(isolation, committed, snapshot, uncommitted, guild_id) ==
    (IF isolation = "REPEATABLE READ" THEN snapshot ELSE committed) \cup (uncommitted \cap {guild_id})

Uncommitted == { g \in Callers : ycCall[g].pending }

YtConcurrentIdle ==
    /\ ycIsolation = "REPEATABLE READ"
    /\ ycRows = {}
    /\ ycHub = FALSE
    /\ ycCall = [g \in Callers |-> NotCalled]

\* get_youtube_subscription_by_guild_and_channel: the first read of the
\* transaction; a guild that has the row returns True at once.
CheckExisting(g) ==
    /\ ycCall[g].pc = "start"
    /\ ycCall' = [ycCall EXCEPT ![g] =
                    IF g \in ycRows
                    THEN [@ EXCEPT !.pc = "returning", !.snapshot = ycRows, !.result = TRUE]
                    ELSE [@ EXCEPT !.pc = "checked", !.snapshot = ycRows]]
    /\ UNCHANGED <<ycIsolation, ycRows, ycHub>>
    /\ UNCHANGED exceptYtConcurrent

\* youtube_dao.add_youtube_subscription(guild_id, channel_id, channel_name)
InsertRow(g) ==
    /\ ycCall[g].pc = "checked"
    /\ ycCall' = [ycCall EXCEPT ![g] = [@ EXCEPT !.pc = "inserted", !.pending = TRUE]]
    /\ UNCHANGED <<ycIsolation, ycRows, ycHub>>
    /\ UNCHANGED exceptYtConcurrent

\* count_subscriptions_for_channel and the test `subscriptions_count == 1`.
CountRows(g) ==
    /\ ycCall[g].pc = "inserted"
    /\ LET subscriptions_count ==
               Cardinality(visible_rows(ycIsolation, ycRows, ycCall[g].snapshot, Uncommitted, g))
       IN ycCall' = [ycCall EXCEPT ![g] =
                       IF subscriptions_count = 1
                       THEN [@ EXCEPT !.pc = "subscribing", !.count = subscriptions_count]
                       ELSE [@ EXCEPT !.pc = "returning", !.count = subscriptions_count, !.result = TRUE]]
    /\ UNCHANGED <<ycIsolation, ycRows, ycHub>>
    /\ UNCHANGED exceptYtConcurrent

\* websub_service.subscribe: accepted by the hub, or failed; after a failure
\* the call removes its row and returns False.
HubSubscribe(g) ==
    /\ ycCall[g].pc = "subscribing"
    /\ \E success \in BOOLEAN :
        /\ ycCall' = [ycCall EXCEPT ![g] =
                        IF success
                        THEN [@ EXCEPT !.pc = "returning", !.requested = TRUE, !.result = TRUE]
                        ELSE [@ EXCEPT !.pc = "returning", !.requested = TRUE, !.result = FALSE,
                                       !.pending = FALSE]]
        /\ ycHub' = (ycHub \/ success)
    /\ UNCHANGED <<ycIsolation, ycRows>>
    /\ UNCHANGED exceptYtConcurrent

\* The async with block is left: session.commit(), and the call returns.
CommitAndReturn(g) ==
    /\ ycCall[g].pc = "returning"
    /\ ycRows' = ycRows \cup (IF ycCall[g].pending THEN {g} ELSE {})
    /\ ycCall' = [ycCall EXCEPT ![g] = [@ EXCEPT !.pc = "done", !.pending = FALSE]]
    /\ UNCHANGED <<ycIsolation, ycHub>>
    /\ UNCHANGED exceptYtConcurrent

YtConcurrentNext ==
    \E g \in Callers :
        \/ CheckExisting(g)
        \/ InsertRow(g)
        \/ CountRows(g)
        \/ HubSubscribe(g)
        \/ CommitAndReturn(g)

(***************************************************************************)
(* Concurrent send requests for one reaction role:                         *)
(* src/api/blueprints/reaction_roles.py, send_reaction_role.  Every        *)
(* request is handled by its own thread or worker with its own             *)
(* ReactionRoleDao; the handler takes no lock, so the requests interleave  *)
(* between the admin check, the read of the row, the Discord post and      *)
(* mark_as_sent.                                                           *)
(***************************************************************************)
NumSenders == 2

Senders == 1..NumSenders

\* A request: where its handler is, the id of the message it posted (NoId
\* when none), its response once given, and the message_id in the data of
\* a 200.
ScSend(pc, message_id, resp) ==
    [pc |-> pc, message_id |-> message_id, resp |-> resp, returned |-> NoId]

NotSent == ScSend("start", NoId, NoResponse)

SendConcurrentIdle ==
    /\ scRow = ReactionRole(1, "a", FALSE, NoId)
    /\ scMessages = {}
    /\ scSend = [s \in Senders |-> NotSent]

\* check_admin_sync(request.user_id, guild_id) and the 403 of a caller who
\* is not an admin of the guild.
SendCheckAdmin(s) ==
    /\ scSend[s].pc = "start"
    /\ \E has_admin \in BOOLEAN :
        scSend' = [scSend EXCEPT ![s] =
                     IF has_admin THEN [@ EXCEPT !.pc = "admin"]
                     ELSE ScSend("done", NoId, Response(403, "You don't have permission to manage this server"))]
    /\ UNCHANGED <<scRow, scMessages>>
    /\ UNCHANGED exceptSendConcurrent

\* rr = dao.get_by_id(rr_id) and the test `if rr.is_sent`.
SendGetById(s) ==
    /\ scSend[s].pc = "admin"
    /\ scSend' = [scSend EXCEPT ![s] =
                    IF scRow.is_sent
                    THEN ScSend("done", NoId, Response(400, "Reaction role already sent to Discord"))
                    ELSE [@ EXCEPT !.pc = "read"]]
    /\ UNCHANGED <<scRow, scMessages>>
    /\ UNCHANGED exceptSendConcurrent

\* run_sync(http_client.post_message(...)): Discord posts the message and
\* gives its id, or the post fails and the request is answered 500.
SendPostMessage(s) ==
    /\ scSend[s].pc = "read"
    /\ \E discord_ok \in BOOLEAN :
        IF discord_ok
        THEN LET message_id == posted_message_id(scMessages)
             IN /\ scMessages' = scMessages \cup {message_id}
                /\ scSend' = [scSend EXCEPT ![s] = ScSend("posted", message_id, NoResponse)]
        ELSE /\ scMessages' = scMessages
             /\ scSend' = [scSend EXCEPT ![s] =
                             ScSend("done", NoId, Response(500, "Failed to post message to Discord"))]
    /\ UNCHANGED scRow
    /\ UNCHANGED exceptSendConcurrent

\* dao.mark_as_sent(rr_id, message_id)
SendMarkAsSent(s) ==
    /\ scSend[s].pc = "posted"
    /\ scRow' = mark_as_sent(scRow, scSend[s].message_id)
    /\ scSend' = [scSend EXCEPT ![s] = [@ EXCEPT !.pc = "marked"]]
    /\ UNCHANGED scMessages
    /\ UNCHANGED exceptSendConcurrent

\* sent_rr = dao.get_by_id(rr_id) and the 200 with the row as it is now.
SendFetchUpdated(s) ==
    /\ scSend[s].pc = "marked"
    /\ scSend' = [scSend EXCEPT ![s] =
                    [@ EXCEPT !.pc = "done", !.returned = scRow.message_id,
                              !.resp = Response(200, "Reaction role sent to Discord successfully")]]
    /\ UNCHANGED <<scRow, scMessages>>
    /\ UNCHANGED exceptSendConcurrent

SendConcurrentNext ==
    \E s \in Senders :
        \/ SendCheckAdmin(s)
        \/ SendGetById(s)
        \/ SendPostMessage(s)
        \/ SendMarkAsSent(s)
        \/ SendFetchUpdated(s)

(***************************************************************************)
(* POST /api/guilds/<guild_id>/custom-commands:                            *)
(* src/api/blueprints/custom_commands.py, create_custom_command, behind    *)
(* auth_decorators.require_auth.  DAO calls succeed.                       *)
(***************************************************************************)
\* The guilds of the URL.  Discord ids are unique across users and guilds.
CommandGuilds == {3, 4}

\* http_client.check_admin(user_id, guild_id) behind check_admin_sync: true
\* for the pairs Discord's data makes admins; an id that is not a guild's
\* is not found, which gives False.
http_check_admin(admins, user_id, guild_id) == <<user_id, guild_id>> \in admins

\* The parameters of the route function that the call f(*args, **kwargs)
\* of the decorator's wrapper leaves without a value: Flask passes the
\* variables of the URL rule and require_auth adds nothing.
missing_arguments(parameters, view_args) == parameters \ view_args

\* The answer and the CustomCommands rows after a request.
CommandReply(commands, status, body) == [commands |-> commands, resp |-> Response(status, body)]

\* The body of create_custom_command(guild_id, current_user).
create_custom_command(commands, admins, guild_id, current_user, req, env) ==
    LET is_admin == http_check_admin(admins, guild_id, current_user.id)
        data == get_json(req, env)
    IN IF ~is_admin
       THEN CommandReply(commands, 403, "You must be a server administrator to create custom commands")
       ELSE IF data = "raise" THEN CommandReply(commands, 500, "Failed to create custom command")
       ELSE IF not_data(data) THEN CommandReply(commands, 400, "Request body is required")
       ELSE IF data = "invalid" THEN CommandReply(commands, 400, "Command name is required")
       ELSE IF ~env.can_create THEN CommandReply(commands, 400, "limit reached")
       ELSE IF <<guild_id, "a">> \in commands THEN CommandReply(commands, 409, "Command already exists in this server")
       ELSE CommandReply(commands \cup {<<guild_id, "a">>}, 201, "Custom command created successfully")

\* The route with its decorator: require_auth's checks, then the call of
\* the route function with the arguments of the URL.
CustomCommandDispatch(ctx, commands, admins, guild_id, env) ==
    LET authed == require_auth(ctx)
    IN IF Returned(authed) THEN [commands |-> commands, resp |-> authed.resp]
       ELSE IF missing_arguments({"guild_id", "current_user"}, {"guild_id"}) # {}
       THEN [commands |-> commands, resp |-> FrameworkError]
       ELSE create_custom_command(commands, admins, guild_id, [id |-> authed.user_id], ctx.req, env)

\* The JWTs the users hold.
CommandTokens == { create_jwt(u, 0, TRUE) : u \in Users }

CustomCommandsStart ==
    /\ ccCommands = {}
    /\ ccLast = [valid |-> FALSE, user_id |-> NoId, guild_id |-> NoId, body |-> "", is_admin |-> FALSE,
                 resp |-> Response(0, ""), created |-> FALSE]

\* No request yet, and nobody is an admin of a guild.
CustomCommandsIdle == CustomCommandsStart /\ ccAdmins = {}

\* A request to the route is handled to the end.
CreateCustomCommand ==
    \E auth \in AuthHeaders(CommandTokens), guild_id \in CommandGuilds, body \in Bodies, full \in BOOLEAN :
      \E json_raises \in Choice(body = "absent") :
        LET req == [route |-> "custom_commands.create_custom_command", auth |-> auth, body |-> body]
            env == [json_raises |-> json_raises, can_create |-> ~full]
            out == CustomCommandDispatch(AuthContext(req, 0, TRUE, [u \in Users |-> "none"]),
                                         ccCommands, ccAdmins, guild_id, env)
            valid == CarriesValidJwt(req, 0)
        IN /\ ccCommands' = out.commands
           /\ ccLast' = [valid |-> valid,
                         user_id |-> IF valid THEN auth.token.user_id ELSE NoId,
                         guild_id |-> guild_id, body |-> body,
                         is_admin |-> valid /\ <<auth.token.user_id, guild_id>> \in ccAdmins,
                         resp |-> out.resp, created |-> out.commands # ccCommands]
           /\ UNCHANGED ccAdmins
           /\ UNCHANGED exceptCustomCommands

CustomCommandsNext == CreateCustomCommand

(***************************************************************************)
(* Specifications, one per subsystem.                                      *)
(***************************************************************************)
TwitchInit ==
    /\ TwitchStart
    /\ twSub \in {NoRecord} \cup [exists : {TRUE}, tracked_guild_ids : SUBSET Guilds]
    /\ twConfigured \in SUBSET twSub.tracked_guild_ids
    /\ KickIdle /\ StripeIdle /\ YouTubeIdle /\ AuthIdle /\ GuildIdle /\ SubsIdle /\ CheckAdminIdle /\ ConcurrentIdle /\ YtSubsIdle /\ YtConcurrentIdle /\ SendConcurrentIdle /\ CustomCommandsIdle

SpecTwitch == TwitchInit /\ [][TwitchNext]_vars

\* The Twitch endpoint while guilds stop tracking the streamer.
SpecTracking == TwitchInit /\ [][TrackingNext]_vars

KickInit ==
    /\ KickStart
    /\ kkSub \in {NoRecord} \cup [exists : {TRUE}, tracked_guild_ids : SUBSET Guilds]
    /\ kkConfigured \in SUBSET kkSub.tracked_guild_ids
    /\ TwitchIdle /\ StripeIdle /\ YouTubeIdle /\ AuthIdle /\ GuildIdle /\ SubsIdle /\ CheckAdminIdle /\ ConcurrentIdle /\ YtSubsIdle /\ YtConcurrentIdle /\ SendConcurrentIdle /\ CustomCommandsIdle

SpecKick == KickInit /\ [][KickNext]_vars

\* The tables are empty, or guild 1 has an active subscription from an
\* earlier checkout.
StripeInit ==
    /\ \/ StripeStart
       \/ /\ stSubs = <<SubscriptionRow(1, "premium", 1, "active")>>
          /\ stGuild = [g \in Guilds |-> IF g = 1 THEN [tier |-> "premium", status |-> "active"]
                                                  ELSE [tier |-> "free", status |-> "none"]]
          /\ stHandled = [id \in StripeEventIds |-> NoEvent]
          /\ stLast = [valid |-> FALSE, redelivery |-> FALSE, deleted |-> NoId, downgraded |-> {},
                       resp |-> Response(0, ""), writes |-> 0]
    /\ stSecret \in BOOLEAN
    /\ stDao \in StripeDaoModes
    /\ TwitchIdle /\ KickIdle /\ YouTubeIdle /\ AuthIdle /\ GuildIdle /\ SubsIdle /\ CheckAdminIdle /\ ConcurrentIdle /\ YtSubsIdle /\ YtConcurrentIdle /\ SendConcurrentIdle /\ CustomCommandsIdle

SpecStripe == StripeInit /\ [][StripeNext]_vars

YouTubeInit ==
    /\ YouTubeStart
    /\ ytSecret \in BOOLEAN
    /\ TwitchIdle /\ KickIdle /\ StripeIdle /\ AuthIdle /\ GuildIdle /\ SubsIdle /\ CheckAdminIdle /\ ConcurrentIdle /\ YtSubsIdle /\ YtConcurrentIdle /\ SendConcurrentIdle /\ CustomCommandsIdle

SpecYouTube == YouTubeInit /\ [][YouTubeNext]_vars

AuthInit ==
    /\ AuthStart
    /\ auSecret \in BOOLEAN
    /\ auAdmins \in [Users -> {"none", "admin", "super_admin"}]
    /\ TwitchIdle /\ KickIdle /\ StripeIdle /\ YouTubeIdle /\ GuildIdle /\ SubsIdle /\ CheckAdminIdle /\ ConcurrentIdle /\ YtSubsIdle /\ YtConcurrentIdle /\ SendConcurrentIdle /\ CustomCommandsIdle

SpecAuth == AuthInit /\ [][AuthNext]_vars

ContentInit ==
    /\ GuildStart
    /\ gmAdminOf \in {{}, {1}}
    /\ gmSub = [g \in Guilds |-> "none"]
    /\ TwitchIdle /\ KickIdle /\ StripeIdle /\ YouTubeIdle /\ AuthIdle /\ SubsIdle /\ CheckAdminIdle /\ ConcurrentIdle /\ YtSubsIdle /\ YtConcurrentIdle /\ SendConcurrentIdle /\ CustomCommandsIdle

SpecContent == ContentInit /\ [][ContentNext]_vars

ConfigInit ==
    /\ GuildStart
    /\ gmAdminOf \in {{}, {1}}
    /\ gmSub \in {[g \in Guilds |-> IF g = 1 THEN x ELSE "active"] : x \in {"none", "active"}}
    /\ TwitchIdle /\ KickIdle /\ StripeIdle /\ YouTubeIdle /\ AuthIdle /\ SubsIdle /\ CheckAdminIdle /\ ConcurrentIdle /\ YtSubsIdle /\ YtConcurrentIdle /\ SendConcurrentIdle /\ CustomCommandsIdle

SpecConfig == ConfigInit /\ [][ConfigNext]_vars

SubsInit ==
    /\ SubsStart
    /\ TwitchIdle /\ KickIdle /\ StripeIdle /\ YouTubeIdle /\ AuthIdle /\ GuildIdle /\ CheckAdminIdle /\ ConcurrentIdle /\ YtSubsIdle /\ YtConcurrentIdle /\ SendConcurrentIdle /\ CustomCommandsIdle

SpecSubs == SubsInit /\ [][SubsNext]_vars

CheckAdminInit ==
    /\ caInput \in CheckAdminInputs
    /\ caResult = NotReturned
    /\ TwitchIdle /\ KickIdle /\ StripeIdle /\ YouTubeIdle /\ AuthIdle /\ GuildIdle /\ SubsIdle /\ ConcurrentIdle /\ YtSubsIdle /\ YtConcurrentIdle /\ SendConcurrentIdle /\ CustomCommandsIdle

SpecCheckAdmin == CheckAdminInit /\ [][CheckAdminNext]_vars

ConcurrentInit ==
    /\ cdPlatform \in Platforms
    /\ cdType \in DeliveredTypes(cdPlatform)
    /\ cdId \in [Deliveries -> MsgIds]
    /\ cdEvents = {}
    /\ cdPc = [d \in Deliveries |-> "received"]
    /\ cdProcessed = [d \in Deliveries |-> FALSE]
    /\ cdResp = [d \in Deliveries |-> NoResponse]
    /\ TwitchIdle /\ KickIdle /\ StripeIdle /\ YouTubeIdle /\ AuthIdle /\ GuildIdle /\ SubsIdle /\ CheckAdminIdle /\ YtSubsIdle /\ YtConcurrentIdle /\ SendConcurrentIdle /\ CustomCommandsIdle

SpecConcurrent == ConcurrentInit /\ [][ConcurrentNext]_vars

YtSubsInit ==
    /\ YtSubsStart
    /\ TwitchIdle /\ KickIdle /\ StripeIdle /\ YouTubeIdle /\ AuthIdle /\ GuildIdle /\ SubsIdle /\ CheckAdminIdle /\ ConcurrentIdle /\ YtConcurrentIdle /\ SendConcurrentIdle /\ CustomCommandsIdle

SpecYtSubs == YtSubsInit /\ [][YtSubsNext]_vars

\* Before the calls the hub is subscribed exactly when a guild has a row of
\* the channel: the state every sequence of earlier calls that returned True
\* leaves.
YtConcurrentInit ==
    /\ ycIsolation \in IsolationLevels
    /\ ycRows \in SUBSET Callers
    /\ ycHub = (ycRows # {})
    /\ ycCall = [g \in Callers |-> NotCalled]
    /\ TwitchIdle /\ KickIdle /\ StripeIdle /\ YouTubeIdle /\ AuthIdle /\ GuildIdle /\ SubsIdle /\ CheckAdminIdle /\ ConcurrentIdle /\ YtSubsIdle /\ SendConcurrentIdle /\ CustomCommandsIdle

SpecYtConcurrent == YtConcurrentInit /\ [][YtConcurrentNext]_vars

\* The reaction role is a draft, or was sent before the requests arrive.
SendConcurrentInit ==
    /\ \/ scRow = ReactionRole(1, "a", FALSE, NoId) /\ scMessages = {}
       \/ scRow = ReactionRole(1, "a", TRUE, 1) /\ scMessages = {1}
    /\ scSend = [s \in Senders |-> NotSent]
    /\ TwitchIdle /\ KickIdle /\ StripeIdle /\ YouTubeIdle /\ AuthIdle /\ GuildIdle /\ SubsIdle /\ CheckAdminIdle /\ ConcurrentIdle /\ YtSubsIdle /\ YtConcurrentIdle /\ CustomCommandsIdle

SpecSendConcurrent == SendConcurrentInit /\ [][SendConcurrentNext]_vars

\* Any users are admins of any guilds.
CustomCommandsInit ==
    /\ CustomCommandsStart
    /\ ccAdmins \in SUBSET (Users \X CommandGuilds)
    /\ TwitchIdle /\ KickIdle /\ StripeIdle /\ YouTubeIdle /\ AuthIdle /\ GuildIdle /\ SubsIdle /\ CheckAdminIdle /\ ConcurrentIdle /\ YtSubsIdle /\ YtConcurrentIdle /\ SendConcurrentIdle

SpecCustomCommands == CustomCommandsInit /\ [][CustomCommandsNext]_vars

(***************************************************************************)
(* Properties of the Twitch EventSub endpoint.                             *)
(***************************************************************************)

\* C1: once a validly signed notification with message id m has been
\* delivered, every later delivery of a validly signed notification with the
\* same message id is answered 200 and changes nothing: no event row, no
\* announcement row, no Discord post or edit.
C1_TwitchRedeliveryIsIdempotent ==
    [][twLast'.redelivery =>
          /\ twLast'.resp.status = 200
          /\ twLast'.calls = 0
          /\ UNCHANGED <<twEvents, twAnn, twDiscord>>]_vars

\* A re-delivered notification was answered as a duplicate after the first
\* delivery had posted an announcement.
C1_Witness ==
    /\ twLast.redelivery
    /\ twLast.resp = Response(200, "Duplicate event")
    /\ Len(twAnn) > 0

LiveMessages(guild) ==
    { i \in 1..Len(twAnn) : twAnn[i].guild = guild /\ twDiscord[twAnn[i].msg] = "live" }

\* C10: at most one active announcement record and at most one un-ended
\* Discord announcement message per streamer per guild.
C10_OneActiveAnnouncement ==
    \A g \in Guilds :
        /\ Cardinality(ActiveRows(twAnn, g)) <= 1
        /\ Cardinality(LiveMessages(g)) <= 1

(***************************************************************************)
(* Properties of the Kick endpoint.                                        *)
(***************************************************************************)
\* A request whose body is a non-empty JSON object.
KickAccepted(req) == req.payload \in {"live", "not-live"}

C2_StripeRedeliveryIsIdempotent ==
    [][stLast'.redelivery =>
          /\ stLast'.resp.status = 200
          /\ stLast'.writes = 0
          /\ UNCHANGED <<stSubs, stGuild>>]_vars

(***************************************************************************)
(* Properties of the YouTube endpoint.                                     *)
(***************************************************************************)
\* C5 as stated: every request whose X-Hub-Signature was not verified as the
\* SHA1 HMAC of the body under the configured secret is rejected (403) and
\* stores nothing.
C5_UnverifiedIsRejected ==
    [][~ytLast'.verified => (ytLast'.resp.status = 403 /\ UNCHANGED ytEvents)]_vars

\* C5 as amended: an event is stored only for a request whose signature was
\* verified, or for a request without the header while no secret is set;
\* every other request is answered 403 and stores nothing.
C5_StoredOnlyIfVerifiedOrUnsecured ==
    [][(~ytLast'.verified /\ ~(~ytSecret /\ ~ytLast'.signed))
          => (ytLast'.resp.status = 403 /\ UNCHANGED ytEvents)]_vars

\* A request with a signature that does not verify was answered 403 while
\* events of verified requests are stored.
C5_Witness ==
    /\ ytSecret /\ ytLast.signed /\ ~ytLast.verified
    /\ ytLast.resp = Response(403, "Signature verification failed")
    /\ ytEvents # EmptyBag

(***************************************************************************)
(* Properties of the authentication decorators.                            *)
(***************************************************************************)
\* C6: the function of a route wrapped by a decorator named require_auth runs
\* only for a request that carries a valid, unexpired HS256 JWT as Bearer
\* token; every other request to such a route is answered 401.
C6_RequireAuthGatesTheHandler ==
    (auLast.route \in RequireAuthRoutes /\ ~auLast.valid) =>
        (~auLast.executed /\ auLast.resp.status = 401)

\* C8: GET and POST /api/admin/users answer a valid JWT of a super_admin with
\* success, a valid JWT of anyone else with 403, and every other request
\* with 401.
C8_UsersRoutesForSuperAdminsOnly ==
    auLast.route \in {"admin.get_admin_users", "admin.create_admin_user"} =>
        /\ (auLast.valid /\ auLast.role = "super_admin" /\ auLast.body_ok) => auLast.resp.status = 200
        /\ (auLast.valid /\ auLast.role # "super_admin") => auLast.resp.status = 403
        /\ ~auLast.valid => auLast.resp.status = 401

(***************************************************************************)
(* Properties of the guild-management routes.                              *)
(***************************************************************************)
\* C7: a request to a guild-management route from a user for whom the admin
\* check on the guild named in the request is false is answered 403 and
\* makes no DAO write and no Discord message post, edit or delete.
C7_NonAdminIs403WithoutEffect ==
    [][(gmLast'.named /\ ~gmLast'.has_admin) =>
          /\ gmLast'.resp.status = 403
          /\ gmLast'.writes = 0 /\ gmLast'.calls = 0
          /\ UNCHANGED <<gmRR, gmMessages, gmEmbeds, gmSettings, gmTier, gmSub>>]_vars

\* The last request was a get, update, send, duplicate or delete of a
\* reaction role or embed of another guild by an admin of the URL's guild.
ForeignItemRequest(last) ==
    /\ last.route \in ReactionRoleItemRoutes \cup EmbedItemRoutes
    /\ last.named /\ last.has_admin
    /\ last.foreign

\* The row is neither returned, modified, sent nor deleted.
ForeignRowUntouched ==
    /\ gmLast'.writes = 0 /\ gmLast'.calls = 0 /\ ~gmLast'.returned
    /\ UNCHANGED <<gmRR, gmMessages, gmEmbeds>>

\* C9 as stated: such a request is answered 404 and the row is untouched.
C9_ForeignRowIs404 ==
    [][ForeignItemRequest(gmLast') => (gmLast'.resp.status = 404 /\ ForeignRowUntouched)]_vars

\* C9 as amended: the row is untouched in every case, and the answer is 404
\* unless the request is answered before the lookup: update_reaction_role
\* without a body (400, or 500 when get_json raises), send_reaction_role
\* when get_json raises (500), duplicate_reaction_role over the limit (403).
C9_ForeignRowUntouched ==
    [][ForeignItemRequest(gmLast') =>
          /\ ForeignRowUntouched
          /\ gmLast'.early = "" => gmLast'.resp.status = 404
          /\ gmLast'.early = "no body" => gmLast'.resp.status \in {400, 500}
          /\ gmLast'.early = "get_json raises" => gmLast'.resp.status = 500
          /\ gmLast'.early = "over the limit" => gmLast'.resp.status = 403]_vars

\* An admin of guild 1 asked to delete, under guild 1, a reaction role of
\* guild 2 and got 404, while guild 1 has rows of its own.
C9_Witness ==
    /\ ForeignItemRequest(gmLast)
    /\ gmLast.route = "delete_reaction_role"
    /\ gmLast.resp.status = 404
    /\ gmRR[1] = ReactionRole(2, "a", TRUE, 1)
    /\ gmRR[2].exists /\ gmRR[2].guild_id = 1

(***************************************************************************)
(* Properties of the Twitch subscription manager.                          *)
(***************************************************************************)
\* The EventSub subscription types that exist at Twitch.
UpstreamTypes == { sub.type : sub \in smUpstream }

\* C11: as long as every call to Twitch has succeeded, the row and the two
\* upstream subscriptions (stream.online, stream.offline) exist if and only
\* if a guild tracks the broadcaster, and the row lists the tracking guilds;
\* a call creates upstream subscriptions only when it takes the tracking
\* guilds from none to one, and deletes them only when it takes them to none.
C11_SubscriptionsFollowTracking ==
    [][~smFailed' =>
          /\ smRecord'.exists <=> smTracking' # {}
          /\ smRecord'.tracked_guild_ids = smTracking'
          /\ UpstreamTypes' = IF smTracking' # {} THEN {"stream.online", "stream.offline"} ELSE {}
          /\ Cardinality(smUpstream') = Cardinality(UpstreamTypes')
          /\ smLast'.created > 0 =>
                (smLast'.op = "subscribe" /\ smTracking = {} /\ Cardinality(smTracking') = 1
                    /\ smLast'.created = 2)
          /\ smLast'.deleted > 0 =>
                (smLast'.op = "unsubscribe" /\ smTracking # {} /\ smTracking' = {}
                    /\ smLast'.deleted = 2)
          /\ (smLast'.op = "subscribe" /\ smTracking # {}) =>
                (smLast'.created = 0 /\ smTracking' = smTracking \cup {smLast'.guild})]_vars

\* The last guild stopped tracking and the upstream subscriptions were
\* deleted, after two guilds had tracked the broadcaster and with every
\* call to Twitch having succeeded.
C11_Witness ==
    /\ ~smFailed
    /\ smLast.op = "unsubscribe" /\ smLast.deleted = 2
    /\ smNextId > 2
    /\ smTracking = {} /\ smUpstream = {} /\ ~smRecord.exists


\* ---------------------------------------------------------------------
\* Order of the permission check and the validation of the body.
\* ---------------------------------------------------------------------

\* C12: a caller with a valid JWT who is not an admin of the guild the
\* request names is never answered 400: no validation of the body is
\* reported to them.  create_checkout and test_upgrade_guild validate the
\* tier before the permission check, so this is violated.
C12_NonAdminNeverGets400 ==
    [][(gmLast'.named /\ ~gmLast'.has_admin) => gmLast'.resp.status # 400]_vars


\* ---------------------------------------------------------------------
\* Properties of check_admin.
\* ---------------------------------------------------------------------

\* The roles of the guild that the member has.
MemberRoles ==
    { caInput.guild_roles[i] : i \in { j \in DOMAIN caInput.guild_roles :
                                         caInput.guild_roles[j].id \in caInput.member.roles } }

IsOwner == caInput.guild.found /\ caInput.guild.owner_id = caInput.user_id

\* Some role of the member grants Administrator or Manage Guild.
GrantingRole == \E role \in MemberRoles : role.permissions \in {"8", "32"}

\* A step of check_admin raises on these answers.
Raises ==
    \/ caInput.guild.found /\ caInput.guild.owner_id = NoId
    \/ \E role \in MemberRoles : role.permissions = "x"

NotFetched == ~caInput.guild.found \/ ~caInput.member.found \/ caInput.guild_roles = <<>>

\* C13 as stated: on answers that are all there and on which nothing
\* raises, check_admin is true exactly for the owner and for a member whose
\* roles grant Administrator or Manage Guild; and it is false whenever the
\* guild, the member or the roles are missing or a step raises.  The owner
\* is answered true before the member and the roles are asked for, so this
\* is violated.
C13_FalseWheneverAnythingIsMissing ==
    caResult.done =>
        /\ (~NotFetched /\ ~Raises) => (caResult.value <=> (IsOwner \/ GrantingRole))
        /\ (NotFetched \/ Raises) => ~caResult.value

\* C13: check_admin is true exactly when the guild is fetched with its
\* owner and either the user is that owner, or the member and a non-empty
\* list of roles are fetched, no permissions of a role of the member fail
\* to parse, and some role of the member has bit 0x8 or bit 0x20.
C13_CheckAdminResult ==
    caResult.done =>
        (caResult.value <=>
            /\ caInput.guild.found /\ caInput.guild.owner_id # NoId
            /\ \/ caInput.guild.owner_id = caInput.user_id
               \/ /\ caInput.member.found
                  /\ caInput.guild_roles # <<>>
                  /\ \A role \in MemberRoles : role.permissions # "x"
                  /\ GrantingRole)

\* The owner is answered true although neither the member nor the roles
\* could be fetched.
C13_Witness ==
    /\ caResult.done /\ caResult.value
    /\ IsOwner /\ ~caInput.member.found /\ caInput.guild_roles = <<>>


\* ---------------------------------------------------------------------
\* Duplicate deliveries to the YouTube endpoint.
\* ---------------------------------------------------------------------

\* The number of rows stored under the event id of a live video of a channel.
EventRowsOf(events, channel_id, video_id) ==
    LET rows == { row \in BagToSet(events) : row.event_id = <<channel_id, video_id, "live_start">> }
    IN BagCardinality([row \in rows |-> events[row]])

\* The last request passed the signature checks of the endpoint.
YouTubeAccepted == ytLast.verified \/ (~ytLast.signed /\ ~ytSecret)

\* C14: after an accepted delivery that announces a live video of a channel
\* there is exactly one row with the id <channel>-<video>-live_start, the
\* delivery is answered 200, and when the row was there before, the delivery
\* skips the entry as a duplicate and leaves the row as it was.  The rollback
\* that skips a duplicate also undoes the inserts made for earlier entries of
\* the delivery, so a live video can be left without a row: this is violated.
C14_OneEventPerLiveVideo ==
    [][\A a \in ytLast'.live :
          YouTubeAccepted' =>
            /\ EventRowsOf(ytEvents', a[1], a[2]) = 1
            /\ BagIn(YouTubeEvent(<<a[1], a[2], "live_start">>, a[1], a[2], "live_start"), ytEvents')
            /\ ytLast'.resp.status = 200
            /\ EventRowsOf(ytEvents, a[1], a[2]) > 0 =>
                  /\ BagIn(YouTubeEvent(<<a[1], a[2], "live_start">>, a[1], a[2], "live_start"), ytEvents)
                  /\ ytLast'.skipped >= 1]_vars

\* ---------------------------------------------------------------------
\* Exceptions raised in a route.
\* ---------------------------------------------------------------------

\* C15: no exception raised while kick_webhook runs leaves the route: every
\* request is answered by the route itself, never by the error page of the
\* framework.  payload.get raises AttributeError on a JSON array outside
\* every except clause, so this is violated.
C15_NoExceptionEscapes == kkLast.handled => kkLast.resp # FrameworkError


\* ---------------------------------------------------------------------
\* Deliveries a webhook endpoint ignores.
\* ---------------------------------------------------------------------

\* C16: an authenticated delivery to the Twitch endpoint that the endpoint
\* has nothing to do for (a duplicate, a subscription type without handler,
\* a message type it does not act on) is answered 200.  A message type other
\* than notification, webhook_callback_verification and revocation is
\* answered 400, so this is violated.
C16_IgnoredDeliveryIs200 ==
    [][twLast'.ignored => twLast'.resp.status = 200]_vars

\* ---------------------------------------------------------------------
\* Re-delivery of a Twitch notification whose handling failed.
\* ---------------------------------------------------------------------

\* C19: a verified notification whose message id was answered 500
\* 'Processing failed' before is processed when it is delivered again, not
\* answered as a duplicate.  The event row is written before the handler
\* runs and stays after the failure, so this is violated.
C19_FailedNotificationIsRetried ==
    [][twLast'.retry => twLast'.resp # Response(200, "Duplicate event")]_vars


\* ---------------------------------------------------------------------
\* Lifetime of the tokens create_jwt issues.
\* ---------------------------------------------------------------------

\* The last request went to a route wrapped by require_auth of
\* src/api/middleware/auth_decorators.py with a token create_jwt issued.
MintedTokenSent ==
    auLast.minted /\ auLast.route \in {"admin.check_admin_status", "admin.get_global_settings"}

\* C17: a token issued by create_jwt less than 24 hours ago is accepted by
\* require_auth, which sets request.user_id to the user of the token; one
\* issued more than 24 hours ago is answered 401 'Token expired'.  (At 24
\* hours exactly the formula asks nothing.)  Without JWT_SECRET in the
\* environment create_jwt signs with a default key and require_auth verifies
\* with None, so no token is accepted: this is violated.
C17_MintedTokenValidFor24Hours ==
    MintedTokenSent =>
        /\ auLast.age < TokenLifetimeHours =>
              /\ auLast.user_id \in Users
              /\ auLast.resp.status \notin {401, 500}
        /\ auLast.age > TokenLifetimeHours => auLast.resp = Response(401, "Token expired")


\* ---------------------------------------------------------------------
\* customer.subscription.deleted.
\* ---------------------------------------------------------------------

\* C18: a verified customer.subscription.deleted event for a subscription
\* id that has a row sets the status of the rows of that id to 'canceled',
\* changing nothing else in the table, and sets the guild of the record to
\* tier 'free' and status 'canceled', leaving the other guilds alone; for a
\* subscription id without a row it changes no subscription row and no
\* guild row.
C18_DeletedCancelsAndDowngrades ==
    [][stLast'.deleted # NoId =>
          IF RowsOf(stSubs, stLast'.deleted) # {}
          THEN /\ Len(stSubs') = Len(stSubs)
               /\ \A i \in 1..Len(stSubs) :
                     stSubs'[i] = IF i \in RowsOf(stSubs, stLast'.deleted)
                                  THEN [stSubs[i] EXCEPT !.status = "canceled"] ELSE stSubs[i]
               /\ \A g \in Guilds :
                     stGuild'[g] = IF g = stSubs[SetMin(RowsOf(stSubs, stLast'.deleted))].guild_id
                                   THEN [tier |-> "free", status |-> "canceled"] ELSE stGuild[g]
          ELSE UNCHANGED <<stSubs, stGuild>> /\ stLast'.writes = 0]_vars

\* A paying guild was downgraded by the deletion of its subscription.
C18_Witness ==
    /\ stLast.deleted # NoId /\ stLast.writes = 2
    /\ RowsOf(stSubs, stLast.deleted) # {}
    /\ \A i \in RowsOf(stSubs, stLast.deleted) :
          /\ stSubs[i].status = "canceled" /\ stSubs[i].tier # "free"
          /\ stGuild[stSubs[i].guild_id] = [tier |-> "free", status |-> "canceled"]

(***************************************************************************)
(* Properties of concurrent deliveries.                                    *)
(***************************************************************************)
SameNotification(d, e) == d # e /\ cdId[d] = cdId[e]

\* C20: of the deliveries of one Twitch or Kick notification (same message
\* id) that are handled concurrently, at most one goes on to process the
\* event, given that the insert of a known event id is rejected.
C20_AtMostOneProcesses ==
    \A d, e \in Deliveries : SameNotification(d, e) => ~(cdProcessed[d] /\ cdProcessed[e])

\* Two deliveries of one notification both passed the duplicate test; one
\* stored the event and processed it, the insert of the other was rejected.
C20_Witness ==
    \E d, e \in Deliveries :
        /\ SameNotification(d, e)
        /\ cdPc[d] = "done" /\ cdPc[e] = "done"
        /\ cdProcessed[d] /\ cdResp[d] = Response(200, "success")
        /\ ~cdProcessed[e] /\ cdResp[e] = RaisedAnswer(cdPlatform)

\* ---------------------------------------------------------------------
\* Subscriptions left at Twitch by a failed subscribe.
\* ---------------------------------------------------------------------

\* The EventSub subscriptions at Twitch that the row of the broadcaster
\* does not refer to.
Unreferenced(record, upstream) ==
    { sub \in upstream :
        ~(record.exists /\ sub.id \in {record.online_subscription_id, record.offline_subscription_id}) }

\* C21: when subscribe_to_streamer returns failure for a broadcaster that had
\* no row and no subscription at Twitch, no subscription of the broadcaster
\* exists at Twitch afterwards.  When exactly one of the two creations
\* succeeds the function returns without deleting the one it created, so
\* this is violated.
C21_FailedSubscribeLeavesNothing ==
    [][(/\ smLast'.op = "subscribe" /\ ~smLast'.success
        /\ ~smRecord.exists /\ smUpstream = {})
       => Unreferenced(smRecord', smUpstream') = {}]_vars

\* ---------------------------------------------------------------------
\* Entries of one YouTube delivery and the rollback of a duplicate.
\* ---------------------------------------------------------------------

\* C29: when the handler answers 200 for a delivery, every live entry of it
\* whose event id was not stored before has its row afterwards.  The session
\* is shared by the entries of the delivery, and the rollback after an
\* IntegrityError undoes the inserts of the earlier entries, so this is
\* violated.
C29_RollbackKeepsEarlierEntries ==
    [][ytLast'.resp = Response(200, "Acknowledged") =>
          \A a \in ytLast'.live :
              EventRowsOf(ytEvents, a[1], a[2]) = 0 => EventRowsOf(ytEvents', a[1], a[2]) = 1]_vars

(***************************************************************************)
(* Properties of the YouTube subscription manager.                         *)
(***************************************************************************)
\* The guilds that have a row for the channel.
GuildsOf(rows, channel_id) == { row[1] : row \in { r \in rows : r[2] = channel_id } }

\* C22: in a sequence of add_subscription and remove_subscription calls, a
\* subscribe request goes to the hub exactly when the call adds the first
\* row of the channel, an unsubscribe request exactly when it removes the
\* last one, and after a call that returned True the hub is subscribed to
\* the channel of the call if and only if a guild has a row for it.
C22_HubFollowsRows ==
    [][LET g == ysLast'.guild
           c == ysLast'.channel
       IN /\ ysLast'.op = "add" =>
                (ysLast'.request = "subscribe" <=> (g \notin GuildsOf(ysRows, c) /\ GuildsOf(ysRows, c) = {}))
          /\ ysLast'.op = "add" => ysLast'.request # "unsubscribe"
          /\ ysLast'.op = "remove" =>
                (ysLast'.request = "unsubscribe" <=> GuildsOf(ysRows, c) = {g})
          /\ ysLast'.op = "remove" => ysLast'.request # "subscribe"
          /\ ysLast'.returned => (c \in ysHub' <=> GuildsOf(ysRows', c) # {})]_vars

\* The second guild of a channel was added without a hub request while the
\* other channel has had its last row removed and the hub unsubscribed.
C22_Witness ==
    /\ ysLast.op = "add" /\ ysLast.returned /\ ysLast.request = ""
    /\ GuildsOf(ysRows, ysLast.channel) = Guilds
    /\ \E c \in Channels : c \in ysHub /\ ysStatus[c] = "active"
    /\ \E c \in Channels : c \notin ysHub /\ ysStatus[c] = "pending" /\ GuildsOf(ysRows, c) = {}

\* ---------------------------------------------------------------------
\* Interleaved add_subscription calls.
\* ---------------------------------------------------------------------

AllReturnedTrue == \A g \in Callers : ycCall[g].pc = "done" /\ ycCall[g].result

\* C23: when the add_subscription calls of different guilds for one channel
\* interleave and all of them have returned True, the hub has accepted a
\* subscribe request for the channel, and every guild has its row.
C23_InterleavedAddsReachTheHub ==
    AllReturnedTrue => (ycHub /\ ycRows = Callers)

\* No row existed; two calls inserted their rows before either committed,
\* each counted only its own row, both subscribed, both returned True.
C23_Witness ==
    /\ AllReturnedTrue
    /\ \A g \in Callers : ycCall[g].requested /\ ycCall[g].count = 1 /\ ycCall[g].snapshot = {}

\* ---------------------------------------------------------------------
\* Events that arrive after the deletion of a subscription.
\* ---------------------------------------------------------------------

\* C24: a guild downgraded by a processed customer.subscription.deleted
\* keeps tier 'free' under every later event until a
\* checkout.session.completed is processed.  handle_payment_succeeded sets
\* the guild to the tier of the subscription record whatever the status of
\* the record, so a late invoice.payment_succeeded upgrades the guild again:
\* this is violated.
C24_DeletedStaysFree ==
    \A g \in stLast.downgraded : stGuild[g].tier = "free"

\* ---------------------------------------------------------------------
\* Announcements after the stream has ended.
\* ---------------------------------------------------------------------

\* C25: after a stream.offline notification of the broadcaster has been
\* processed, no announcement of the broadcaster is active in any guild,
\* whether or not the guild still tracks the broadcaster.
\* handle_stream_offline ends the announcements of the guilds in
\* tracked_guild_ids of the record as it is now, and returns at once when
\* there is no record, so the announcement of a guild that stopped tracking
\* during the stream stays active: this is violated.
C25_OfflineEndsEveryAnnouncement ==
    [][(twLast'.offline /\ twLast'.resp.status = 200) =>
          \A i \in 1..Len(twAnn') : twAnn'[i].ended]_vars

\* ---------------------------------------------------------------------
\* Repeated online events at the Kick endpoint.
\* ---------------------------------------------------------------------

\* The announcement rows of the guild added by the step.
NewKickRows(guild) == { i \in (Len(kkAnn) + 1)..Len(kkAnn') : kkAnn'[i].guild = guild }

\* C26: handling a request at the Kick endpoint adds no announcement for a
\* guild that has an active announcement of the streamer, and adds at most
\* one otherwise, so a guild never has more than one active announcement,
\* whatever the number of online events with distinct message ids.
C26_KickPostsOncePerStream ==
    [][\A g \in Guilds :
          /\ ActiveRows(kkAnn, g) # {} => NewKickRows(g) = {}
          /\ Cardinality(NewKickRows(g)) <= 1
          /\ Cardinality(ActiveRows(kkAnn', g)) <= 1]_vars

\* A second online event with another message id was processed for a guild
\* that has its announcement: no Discord call, and still one active row.
C26_Witness ==
    /\ Cardinality(kkEvents) = 2
    /\ kkLast.req.payload = "live" /\ kkLast.req.event_type = "livestream.status.updated"
    /\ kkLast.resp = Response(200, "success") /\ kkLast.calls = 0
    /\ \E g \in kkConfigured : Cardinality(ActiveRows(kkAnn, g)) = 1
    /\ \A i \in 1..Len(kkAnn) : ~kkAnn[i].ended

(***************************************************************************)
(* Properties of the draft/sent workflow of reaction roles.                *)
(***************************************************************************)
\* Every row is sent exactly when it holds a message id, and the id it
\* holds is the id of a message a send posted for it.
SentIffStored(rr, messages) ==
    \A i \in RRIds :
        rr[i].exists =>
            /\ rr[i].is_sent <=> rr[i].message_id # NoId
            /\ rr[i].is_sent => <<i, rr[i].message_id>> \in messages

\* The last request was a send, by an admin of the URL's guild, of a
\* reaction role of that guild.
SendOfOwnRow(last, rr) ==
    /\ last.route = "send_reaction_role"
    /\ last.named /\ last.has_admin
    /\ rr[last.id].exists /\ ~last.foreign

\* A send posts only for a draft and stores the id of what it posted; a
\* send whose post fails leaves the draft as it was.
SendPostsDraftsOnly ==
    /\ gmMessages' # gmMessages =>
          /\ gmLast'.route = "send_reaction_role" /\ gmLast'.resp.status = 200
          /\ ~gmRR[gmLast'.id].is_sent
          /\ gmMessages' = gmMessages \cup {<<gmLast'.id, gmRR'[gmLast'.id].message_id>>}
          /\ <<gmLast'.id, gmRR'[gmLast'.id].message_id>> \notin gmMessages
    /\ (SendOfOwnRow(gmLast', gmRR) /\ gmRR[gmLast'.id].is_sent) =>
          /\ gmLast'.calls = 0
          /\ UNCHANGED <<gmRR, gmMessages>>
    /\ (gmLast'.route = "send_reaction_role"
          /\ gmLast'.resp = Response(500, "Failed to post message to Discord")) =>
          /\ UNCHANGED <<gmRR, gmMessages>>
          /\ ~gmRR'[gmLast'.id].is_sent /\ gmRR'[gmLast'.id].message_id = NoId

PostedBySends == { scSend[s].message_id : s \in { t \in Senders : scSend[t].message_id # NoId } }

\* C28: when send requests for the same draft reaction role are handled
\* concurrently, at most one Discord message is posted for it, and the
\* message id stored on the record is the id of that single posted message.
\* This is violated.
C28_ConcurrentSendsPostOnce ==
    /\ Cardinality(PostedBySends) <= 1
    /\ (scRow.is_sent /\ PostedBySends # {}) => PostedBySends = {scRow.message_id}

(***************************************************************************)
(* Properties of the custom-commands route.                                *)
(***************************************************************************)
\* C30: an authenticated user who is an admin of guild G and sends a valid
\* body to POST /guilds/G/custom-commands receives 201 with the command
\* created (409 when the guild has the command already, 400 at the premium
\* limit), and one who is not an admin of G receives 403.  This is
\* violated.
C30_AdminCreatesOthersForbidden ==
    [][/\ (ccLast'.valid /\ ccLast'.is_admin /\ ccLast'.body = "valid") =>
             \/ ccLast'.resp.status = 201 /\ <<ccLast'.guild_id, "a">> \in ccCommands'
             \/ ccLast'.resp.status \in {400, 409} /\ ~ccLast'.created
       /\ (ccLast'.valid /\ ~ccLast'.is_admin) =>
             ccLast'.resp.status = 403 /\ ~ccLast'.created]_vars

====
